---- MODULE Spec2Model ----
(***************************************************************************)
(* LoRe-Mono dataset generators (LoRe-Bench/LoRe-Mono/scripts/*.py).       *)
(*                                                                         *)
(* Every script is a batch program: fix a seed, run a simulate-and-render  *)
(* loop that appends one record per step to `dataset`, then create the     *)
(* data directory and write the records to the output file.                *)
(*                                                                         *)
(* Python strings are modelled as sequences of one-character strings,      *)
(* Python lists as sequences, 0-based index k is sequence position k+1.    *)
(***************************************************************************)
EXTENDS Integers, Sequences, FiniteSets, TLC

VARIABLES
    run,        \* which invocation of the script this is: 1, 2, ...
    script,     \* the generator being run (file name without .py)
    pc,         \* position in main(): "args" | "mkdir" | "open" | "loop" | "mkdir_again" |
                \* "write" | "done" | "crashed"
    num_step,   \* args.num_step
    i,          \* number of completed loop iterations (the loop variable of the next one)
    state,      \* the carried working state of the family
    dataset,    \* the list `dataset` of records appended so far
    dirExists,  \* whether DATA_SAVE_DIR exists on disk
    file,       \* the output file: [exists |-> BOOLEAN, content |-> sequence of lines]
    fh,         \* the file handle of this run: "unopened" | "open" | "closed"
    fnArg,      \* argument of the update rule under test (pure-function harness)
    fnOut       \* [called, value]: whether the rule has returned, and what

vars == <<run, script, pc, num_step, i, state, dataset, dirExists, file, fh, fnArg, fnOut>>

progVars == <<run, script, pc, num_step, i, state, dataset, dirExists, file, fh>>

fnVars == <<fnArg, fnOut>>

(***************************************************************************)
(* Bounds                                                                  *)
(***************************************************************************)
MaxStep == 44      \* largest --num_step explored

MaxLen == 6        \* longest binary string fed to update_rule90 in the harness

MaxAffineStep == 205   \* largest --num_step of the long affine2d run (t wraps at 200)

MaxRuns == 2       \* how many times in a row a script is invoked

MaxBucket == 2     \* largest --p0, --p1, --p2 given to the momentum-bucket script

MaxDebt == 3       \* largest --c0 given to the momentum-bucket script

MaxThreshold == 2  \* largest --debt_threshold given to the momentum-bucket script

MaxMomentumStep == 4   \* --num_step of the momentum-bucket runs with given flags

MaxTriRegStep == 95    \* --num_step of the long tri-register run (the orbit closes at 93)

MaxWordLen == 4        \* longest word of the pointer machine besides the seed word

MaxScheduleLen == 3    \* longest --schedule of the titration runs with given flags

MaxDelta == 24         \* largest --delta_base and --delta_acid of those runs

MaxCount == 3          \* largest --A0, --B0, --C0 of the cofactor runs with given flags

MaxPeriod == 3         \* largest --k of those runs

MaxLipogramStep == 71  \* --num_step of the long lipogram run (cursor and set repeat at 70)

NoResult == "NoResult"

\* the harness before the rule under test has been called
NotCalled == [called |-> FALSE, value |-> <<>>]

(***************************************************************************)
(* Python helpers                                                          *)
(***************************************************************************)
Min(a, b) == IF a <= b THEN a ELSE b

Abs(a) == IF a < 0 THEN -a ELSE a

\* str.count(ch) on a string of single characters
Count(s, ch) == Cardinality({k \in 1..Len(s) : s[k] = ch})

DigitChars == <<"0", "1", "2", "3", "4", "5", "6", "7", "8", "9">>

\* str(n) / f"{n}" for a non-negative int: its decimal digits, most significant first
RECURSIVE Str(_)
Str(n) == IF n < 10 THEN <<DigitChars[n + 1]>>
          ELSE Str(n \div 10) \o <<DigitChars[(n % 10) + 1]>>

\* ''.join(map(str, xs))
RECURSIVE JoinStr(_)
JoinStr(xs) == IF xs = <<>> THEN <<>> ELSE Str(Head(xs)) \o JoinStr(Tail(xs))

\* the last k elements of a sequence (s[-k:] for 1 <= k; the whole of s when k >= len)
LastK(s, k) == IF Len(s) <= k THEN s ELSE SubSeq(s, Len(s) - k + 1, Len(s))

LowerAlphabet == <<"a", "b", "c", "d", "e", "f", "g", "h", "i", "j", "k", "l", "m",
                   "n", "o", "p", "q", "r", "s", "t", "u", "v", "w", "x", "y", "z">>

UpperAlphabet == <<"A", "B", "C", "D", "E", "F", "G", "H", "I", "J", "K", "L", "M",
                   "N", "O", "P", "Q", "R", "S", "T", "U", "V", "W", "X", "Y", "Z">>

Range(s) == {s[k] : k \in 1..Len(s)}

\* str.isalpha() for one ASCII character
IsAlpha(ch) == ch \in Range(LowerAlphabet) \cup Range(UpperAlphabet)

\* str.lower() for one ASCII character
Lower(ch) == IF ch \in Range(UpperAlphabet)
             THEN LowerAlphabet[CHOOSE k \in 1..26 : UpperAlphabet[k] = ch]
             ELSE ch

\* ord(ch) - 97 for a lowercase letter
OrdMinus97(ch) == (CHOOSE k \in 1..26 : LowerAlphabet[k] = ch) - 1

\* chr(97 + x) for x in 0..25
Chr97(x) == LowerAlphabet[x + 1]

(***************************************************************************)
(* code-3-top-rule90.py                                                    *)
(***************************************************************************)
Rule90Type == "rule90-ring"

Rule90Seed == <<"0", "1", "0", "1", "0", "1", "1", "1", "0", "1", "0", "0", "1">>

\* left ^ right of two ints in {0,1}
Xor01(a, b) == IF a = b THEN 0 ELSE 1

\* a slip on the right neighbour: the cell itself instead of b[(i+1) % L]
update_rule90_center(b) ==
    LET L == Len(b) IN
    [k \in 1..L |->
        LET left  == IF b[((k - 1 - 1) % L) + 1] = "1" THEN 1 ELSE 0
            right == IF b[k] = "1" THEN 1 ELSE 0
        IN  IF Xor01(left, right) # 0 THEN "1" ELSE "0"]

update_rule90(b) ==
    LET L == Len(b) IN
    [k \in 1..L |->
        LET left  == IF b[((k - 1 - 1) % L) + 1] = "1" THEN 1 ELSE 0
            right == IF b[((k - 1 + 1) % L) + 1] = "1" THEN 1 ELSE 0
        IN  IF Xor01(left, right) # 0 THEN "1" ELSE "0"]

(***************************************************************************)
(* code-2-top-rotating-caesar.py                                           *)
(***************************************************************************)
CaesarType == "rotating-caesar-positional"

CaesarSeed == <<<<"a", "b", "z">>, 0>>

\* state is the pair (s, t)
update_rotating_caesar(st) ==
    LET s == st[1]
        t == st[2]
    IN  << [k \in 1..Len(s) |->
              LET shift == (t + (k - 1)) % 26
                  x     == (OrdMinus97(s[k]) + shift) % 26
              IN  Chr97(x)],
           t + 1 >>

(***************************************************************************)
(* code-1-top-digit-inventory4.py                                          *)
(***************************************************************************)
InventoryType == "digit-inventory-4-fixed8"

InventorySeed == <<"0", "1", "9", "3", "8">>

\* a slip on the odd branch: the third counter is written without its % 5
update_inventory_no_mod(s, i_) ==
    LET c0 == Count(s, "0")
        c1 == Count(s, "1")
        c2 == Count(s, "2")
        c3 == Count(s, "3")
        c4 == Count(s, "4")
    IN  IF i_ % 2 = 0
        THEN Str((c0 + 1) % 5) \o Str((c1 + 2) % 5) \o Str((c2 + 1) % 5)
                \o Str((c3 + 1) % 5) \o Str(c4)
        ELSE Str((c0 + 2) % 5)
                \o Str(IF c1 >= 3 THEN (c1 + 1) % 5 ELSE (2 * c1 + 1) % 5)
                \o Str(c2 + 3) \o Str((c3 + 1) % 5) \o Str(c4)

update_inventory(s, i_) ==
    LET c0 == Count(s, "0")
        c1 == Count(s, "1")
        c2 == Count(s, "2")
        c3 == Count(s, "3")
        c4 == Count(s, "4")
    IN  IF i_ % 2 = 0
        THEN Str((c0 + 1) % 5) \o Str((c1 + 2) % 5) \o Str((c2 + 1) % 5)
                \o Str((c3 + 1) % 5) \o Str(c4)
        ELSE Str((c0 + 2) % 5)
                \o Str(IF c1 >= 3 THEN (c1 + 1) % 5 ELSE (2 * c1 + 1) % 5)
                \o Str((c2 + 3) % 5) \o Str((c3 + 1) % 5) \o Str(c4)

\* The program embedded in the task text (lines 62-86).  G is the module
\* namespace of that program while f runs: N, s, f and the loop variable _.
\* f binds s and c0..c4 locally and reads i, which it never assigns, so i is
\* looked up in G (the builtins hold no i).
InventoryEmbeddedGlobals(N, s, k) ==
    ("N" :> N) @@ ("s" :> s) @@ ("f" :> "function") @@ ("_" :> k)

\* one call f(s) of the embedded program: [status, value]
InventoryEmbedded_f(s, G) ==
    IF "i" \in DOMAIN G
    THEN [status |-> "ok", value |-> update_inventory(s, G["i"])]
    ELSE [status |-> "NameError", value |-> NoResult]

\* for _ in range(N): s = f(s), from iteration k on; then ANSWER = s
RECURSIVE InventoryEmbeddedLoop(_, _, _)
InventoryEmbeddedLoop(N, s, k) ==
    IF k >= N
    THEN [status |-> "ok", ANSWER |-> s]
    ELSE LET r == InventoryEmbedded_f(s, InventoryEmbeddedGlobals(N, s, k))
         IN  IF r.status # "ok"
             THEN [status |-> r.status, ANSWER |-> NoResult]
             ELSE InventoryEmbeddedLoop(N, r.value, k + 1)

\* executing the embedded program of a task
InventoryEmbeddedRun(task) == InventoryEmbeddedLoop(task.N, task.s, 0)

(***************************************************************************)
(* code-4-top-ducci-mod1000.py                                             *)
(***************************************************************************)
DucciType == "ducci-mod1000-cyclic"

DucciSeed == <<11, 5, 3, 16, 12, 1, 5, 8, 2>>

\* the textbook Ducci rule the docstring of update_ducci describes
update_ducci_textbook(x) ==
    LET K == Len(x) IN
    [jj \in 1..K |-> Abs(x[jj] - x[(jj % K) + 1]) % 1000]

update_ducci(x) ==
    LET K == Len(x) IN
    [jj \in 1..K |->
        LET j  == jj - 1
            a  == IF j <= 2 THEN j ELSE (2 * j) % K
            b  == (IF j <= 5 THEN j + 1 ELSE j - 2) % K
        IN  Abs(x[a + 1] - x[b + 1]) % 1000]

\* The program embedded in the task text (lines 72-90).  G is its module
\* namespace while f runs: N, x, f and the loop variable _.  f binds vec, K, out
\* and its own loop variable i; the loop body reads j, which f never assigns, so
\* j is looked up in G (the builtins hold no j).
DucciEmbeddedGlobals(N, x, k) ==
    ("N" :> N) @@ ("x" :> x) @@ ("f" :> "function") @@ ("_" :> k)

\* one call f(vec) of the embedded program: [status, value]
DucciEmbedded_f(vec, G) ==
    LET K == Len(vec) IN
    IF K = 0
    THEN [status |-> "ok", value |-> <<>>]
    ELSE IF "j" \in DOMAIN G
         THEN LET j == G["j"]
                  a == IF j <= 2 THEN j ELSE (2 * j) % K
                  b == (IF j <= 5 THEN j + 1 ELSE j - 2) % K
              IN  [status |-> "ok",
                   value |-> [ii \in 1..K |-> Abs(vec[a + 1] - vec[b + 1]) % 1000]]
         ELSE [status |-> "NameError", value |-> NoResult]

\* for _ in range(N): x = f(x), from iteration k on; then ANSWER = ''.join(map(str, x))
RECURSIVE DucciEmbeddedLoop(_, _, _)
DucciEmbeddedLoop(N, x, k) ==
    IF k >= N
    THEN [status |-> "ok", ANSWER |-> JoinStr(x)]
    ELSE LET r == DucciEmbedded_f(x, DucciEmbeddedGlobals(N, x, k))
         IN  IF r.status # "ok"
             THEN [status |-> r.status, ANSWER |-> NoResult]
             ELSE DucciEmbeddedLoop(N, r.value, k + 1)

\* executing the embedded program of a task
DucciEmbeddedRun(task) == DucciEmbeddedLoop(task.N, task.x, 0)

(***************************************************************************)
(* math-matrix-hard-v4.py                                                  *)
(***************************************************************************)
MatrixType == "linear-monotonicity-matrix-harder"

MatrixSeed == << <<1, 2>>, <<5, -3>> >>

MatrixMod == 11

\* 2x2 integer matrices as sequences of rows
MatAdd(A, B) == [r \in 1..2 |-> [c \in 1..2 |-> A[r][c] + B[r][c]]]

MatMul(A, B) == [r \in 1..2 |-> [c \in 1..2 |-> A[r][1] * B[1][c] + A[r][2] * B[2][c]]]

\* np.mod with a positive modulus: the non-negative residue
MatMod(A, m) == [r \in 1..2 |-> [c \in 1..2 |-> A[r][c] % m]]

update_matrix(matrix, mod_num) ==
    LET added   == MatAdd(matrix, << <<0, 0>>, <<0, 1>> >>)
        swapped == <<added[2], added[1]>>
    IN  MatMod(MatMul(added, swapped), mod_num)

MatSum(A) == A[1][1] + A[1][2] + A[2][1] + A[2][2]

(***************************************************************************)
(* sci-phys-memory-walk.py                                                 *)
(***************************************************************************)
MemoryWalkType == "linear-mono-phys-memory-walk-1D"

MemoryWalkF0 == <<0, 1, 0, 1, 1, 0, 0, 1, 0, 0, 0, 1, 0, 1, 1, 0, 0, 1, 1>>

MemoryWalkSeed == [x |-> 0, dir |-> 1, F |-> MemoryWalkF0]

\* step_once(x, dir_, F): F is mutated in place, (x, dir_) returned
step_once(st) ==
    LET L    == Len(st.F)
        b    == st.F[st.x + 1]
        dir2 == IF b = 1 THEN -st.dir ELSE st.dir
    IN  [x   |-> (st.x + dir2) % L,
         dir |-> dir2,
         F   |-> [st.F EXCEPT ![st.x + 1] = 1 - b]]

(***************************************************************************)
(* lang-letter-maze.py                                                     *)
(***************************************************************************)
MazeType == "letter-maze-vowel-right-consonant-down-with-rotations"

GRID == << <<"a", "b", "c", "d", "e">>,
           <<"f", "g", "h", "i", "j">>,
           <<"k", "l", "m", "n", "o">>,
           <<"p", "q", "r", "s", "t">> >>

MazeH == Len(GRID)

MazeW == Len(GRID[1])

R0 == 0

C0 == 0

MazeK == 4

\* ch.lower() in "aeiou" for a one-character ch
IsVowel(ch) == Lower(ch) \in {"a", "e", "i", "o", "u"}

\* grid[r] = grid[r][1:] + grid[r][:1]
rotate_row_left(grid, r, w) ==
    [grid EXCEPT ![r + 1] = Tail(grid[r + 1]) \o <<Head(grid[r + 1])>>]

\* column c moves up by one, the top cell wraps to the bottom
rotate_col_up(grid, c, h) ==
    [rr \in 1..h |->
        [grid[rr] EXCEPT ![c + 1] = IF rr < h THEN grid[rr + 1][c + 1] ELSE grid[1][c + 1]]]

\* a slip on the rolling buffer: the newest letter is dropped instead of the oldest
update_maze_pop_last(st, h, w, k) ==
    LET ch   == st.grid[st.r + 1][st.c + 1]
        c2   == IF IsVowel(ch) THEN (st.c + 1) % w ELSE st.c
        r2   == IF IsVowel(ch) THEN st.r ELSE (st.r + 1) % h
        buf1 == Append(st.buf, st.grid[r2 + 1][c2 + 1])
        buf2 == IF Len(buf1) > k THEN SubSeq(buf1, 1, Len(buf1) - 1) ELSE buf1
        g2   == IF IsVowel(ch) THEN rotate_col_up(st.grid, c2, h)
                ELSE rotate_row_left(st.grid, r2, w)
    IN  [r |-> r2, c |-> c2, buf |-> buf2, grid |-> g2]

\* update_maze(state, grid, h, w, k): st carries r, c, buf and the grid, which
\* the function mutates in place
update_maze(st, h, w, k) ==
    LET ch   == st.grid[st.r + 1][st.c + 1]
        c2   == IF IsVowel(ch) THEN (st.c + 1) % w ELSE st.c
        r2   == IF IsVowel(ch) THEN st.r ELSE (st.r + 1) % h
        buf1 == Append(st.buf, st.grid[r2 + 1][c2 + 1])
        buf2 == IF Len(buf1) > k THEN Tail(buf1) ELSE buf1
        g2   == IF IsVowel(ch) THEN rotate_col_up(st.grid, c2, h)
                ELSE rotate_row_left(st.grid, r2, w)
    IN  [r |-> r2, c |-> c2, buf |-> buf2, grid |-> g2]

\* the fresh state simulate_last_k starts from
MazeStart == [r |-> R0, c |-> C0, buf |-> <<GRID[R0 + 1][C0 + 1]>>, grid |-> GRID]

\* for _ in range(n): state = update_maze(state, grid, H, W, k)
\* (the test on st2 has TLC evaluate each step before it starts the next one,
\* which keeps its evaluation stack flat; it always holds)
RECURSIVE MazeLoop(_, _, _)
MazeLoop(st, n, k) ==
    IF n = 0 THEN st
    ELSE LET st2 == update_maze(st, MazeH, MazeW, k)
         IN  IF DOMAIN st2 = DOMAIN st THEN MazeLoop(st2, n - 1, k) ELSE st2

simulate_last_k(n, k) == MazeLoop(MazeStart, n, k).buf

(***************************************************************************)
(* lang-punct-letter-picker.py                                             *)
(***************************************************************************)
PickerType == "punctuation-guided-letter-picker"

TEXT == <<"a", "b", ",", "c", "d", ".", "e", "f", "!", "g", "h", "?", "i", "j", ";",
          "k", "l", ":", "m", "n", ",", "o", "p", ".", "q", "r", "!", "s", "t", "?",
          "u", "v", ";", "w", "x", ":", "y", "z", ",", "a", "b", ".", "c", "d", "!",
          "e", "f", "?", "g", "h", ";", "i", "j", ":", "k", "l", ",", "m", "n", ".",
          "o", "p", "!", "q", "r", "?", "s", "t", ";", "u", "v">>

JUMP_MAP == ("," :> 2) @@ ("." :> 3) @@ ("!" :> 5) @@ ("?" :> 7) @@ (";" :> 11) @@ (":" :> 13)

PickerI0 == 1

PickerK == 20

PickerModNum == 1000003

\* jump_map.get(c, 0)
JumpGet(jump_map, c) == IF c \in DOMAIN jump_map THEN jump_map[c] ELSE 0

\* the body of one loop iteration of run_picker on (i, B, score)
picker_step(T, st, jump_map) ==
    LET L == Len(T)
        c == T[st.i + 1]
    IN  IF IsAlpha(c)
        THEN [i |-> (st.i + 1) % L, B |-> Append(st.B, Lower(c)), score |-> st.score]
        ELSE [i |-> (st.i + JumpGet(jump_map, c)) % L, B |-> st.B,
              score |-> st.score + JumpGet(jump_map, c)]

PickerStart(T, i0) == [i |-> i0 % Len(T), B |-> <<>>, score |-> 0]

\* a slip: the early return tests len(B) > k instead of len(B) >= k
RECURSIVE picker_loop_stop_late(_, _, _, _, _, _)
picker_loop_stop_late(T, st, n, mod_num, k, jump_map) ==
    IF n = 0
    THEN [kind |-> "int", word |-> <<>>, int |-> st.score % mod_num]
    ELSE LET st2 == picker_step(T, st, jump_map)
         IN  IF IsAlpha(T[st.i + 1]) /\ Len(st2.B) > k
             THEN [kind |-> "str", word |-> LastK(st2.B, k), int |-> 0]
             ELSE picker_loop_stop_late(T, st2, n - 1, mod_num, k, jump_map)

\* the for loop of run_picker with n iterations left; the value returned is a
\* str (kind "str", in word) or an int (kind "int", in int)
RECURSIVE picker_loop(_, _, _, _, _, _)
picker_loop(T, st, n, mod_num, k, jump_map) ==
    IF n = 0
    THEN [kind |-> "int", word |-> <<>>, int |-> st.score % mod_num]
    ELSE LET st2 == picker_step(T, st, jump_map)
         IN  IF IsAlpha(T[st.i + 1]) /\ Len(st2.B) >= k
             THEN [kind |-> "str", word |-> LastK(st2.B, k), int |-> 0]
             ELSE picker_loop(T, st2, n - 1, mod_num, k, jump_map)

run_picker(T, i0, N, mod_num, k, jump_map) ==
    picker_loop(T, PickerStart(T, i0), N, mod_num, k, jump_map)

(***************************************************************************)
(* code-5-top-affine2d.py                                                  *)
(***************************************************************************)
AffineType == "affine2d-stepbias-mod1000"

\* init_state = (1, 2, 0): (x, y, t)
AffineSeed == <<1, 2, 0>>

\* a slip: the step counter t is not reduced
update_affine2d_t_unreduced(st) ==
    <<(2 * st[1] + st[2] + 5 + st[3]) % 200, (3 * st[1] + st[2] + 7) % 200, st[3] + 1>>

update_affine2d(st) ==
    LET x  == st[1]
        y  == st[2]
        t  == st[3]
        nx == (2 * x + y + 5 + t) % 200
        ny == (3 * x + y + 7) % 200
        nt == (t + 1) % 200
    IN  <<nx, ny, nt>>

\* f"{updated_state[0]},{updated_state[1]},{updated_state[2]}"
AffineGtStr(st) == Str(st[1]) \o <<",">> \o Str(st[2]) \o <<",">> \o Str(st[3])

(***************************************************************************)
(* lang-shiritori-walk-small-dict.py                                       *)
(***************************************************************************)
ShiritoriType == "shiritori-walk-small-dict"

\* the list D of main(), one word per line
ShiritoriD == <<
    <<"a", "l", "a", "s">>,
    <<"b", "a", "s", "i", "c">>,
    <<"c", "a", "n", "d", "i", "d">>,
    <<"d", "i", "l", "l">>,
    <<"e", "l", "f">>,
    <<"f", "a", "n", "g">>,
    <<"g", "r", "a", "p", "h">>,
    <<"h", "a", "j", "i">>,
    <<"i", "m", "p", "r", "o", "v">>,
    <<"j", "a", "z", "z">>,
    <<"k", "e", "b", "a", "b">>,
    <<"l", "a", "p", "t", "o", "p">>,
    <<"m", "u", "l", "e">>,
    <<"n", "e", "w">>,
    <<"o", "v", "e", "n">>,
    <<"p", "r", "i", "s", "m">>,
    <<"q", "u", "i", "p", "u">>,
    <<"r", "a", "j">>,
    <<"s", "u", "q">>,
    <<"t", "a", "c", "o">>,
    <<"u", "g", "l", "y">>,
    <<"v", "e", "x">>,
    <<"w", "a", "r">>,
    <<"x", "y", "s", "t">>,
    <<"y", "o", "l", "k">>,
    <<"z", "e", "b", "r", "a">> >>

\* w0 = "alas"
ShiritoriW0 == <<"a", "l", "a", "s">>

\* ord(c) for a lowercase letter
Ord(c) == 97 + OrdMinus97(c)

\* sum(ord(c) for c in w)
RECURSIVE SumOrd(_)
SumOrd(w) == IF w = <<>> THEN 0 ELSE Ord(Head(w)) + SumOrd(Tail(w))

\* a < b for Python strings: code point by code point, a proper prefix first
RECURSIVE StrLess(_, _)
StrLess(a, b) ==
    IF b = <<>> THEN FALSE
    ELSE IF a = <<>> THEN TRUE
    ELSE IF Head(a) = Head(b) THEN StrLess(Tail(a), Tail(b))
    ELSE Ord(Head(a)) < Ord(Head(b))

\* the sorted list with one more element put in its place
RECURSIVE InsertSorted(_, _)
InsertSorted(w, ws) ==
    IF ws = <<>> THEN <<w>>
    ELSE IF StrLess(Head(ws), w) THEN <<Head(ws)>> \o InsertSorted(w, Tail(ws))
    ELSE <<w>> \o ws

\* sorted(ws) for a list of strings
RECURSIVE Sorted(_)
Sorted(ws) == IF ws = <<>> THEN <<>> ELSE InsertSorted(Head(ws), Sorted(Tail(ws)))

\* [w for w in ws if w and last_char in w], in the order of ws
RECURSIVE WordsContaining(_, _)
WordsContaining(ws, last_char) ==
    IF ws = <<>> THEN <<>>
    ELSE (IF Head(ws) # <<>> /\ last_char \in Range(Head(ws)) THEN <<Head(ws)>> ELSE <<>>)
         \o WordsContaining(Tail(ws), last_char)

\* [w for w in ws if w and w[0] == last_char], in the order of ws
RECURSIVE WordsStartingWith(_, _)
WordsStartingWith(ws, last_char) ==
    IF ws = <<>> THEN <<>>
    ELSE (IF Head(ws) # <<>> /\ Head(ws)[1] = last_char THEN <<Head(ws)>> ELSE <<>>)
         \o WordsStartingWith(Tail(ws), last_char)

\* a slip: the words that contain last_char anywhere, not those that start with it
shiritori_candidates_contains(current_word, D) ==
    Sorted(WordsContaining(D, current_word[Len(current_word)]))

\* candidates = sorted([w for w in D if w and w[0] == last_char])
shiritori_candidates(current_word, D) ==
    Sorted(WordsStartingWith(D, current_word[Len(current_word)]))

shiritori_step(current_word, D) ==
    IF current_word = <<>> THEN current_word
    ELSE LET candidates == shiritori_candidates(current_word, D)
         IN  IF candidates = <<>> THEN current_word
             ELSE LET s == SumOrd(current_word)
                      k == s % Len(candidates)
                  IN  candidates[k + 1]

(***************************************************************************)
(* lang-10-rotating-lipogram-sieve.py                                      *)
(***************************************************************************)
LipogramType == "rotating-lipogram-sieve"

\* the word list W of main(), in order
LipogramW == <<
    <<"m", "a", "n", "g", "o">>, <<"s", "t", "e", "e", "l">>, <<"d", "r", "i", "p">>,
    <<"k", "n", "o", "t">>, <<"g", "l", "y", "p", "h">>, <<"b", "r", "u", "n", "c", "h">>,
    <<"f", "l", "a", "r", "e">>, <<"s", "p", "r", "i", "n", "t">>, <<"m", "o", "c", "k">>,
    <<"p", "r", "o", "u", "d">>, <<"m", "i", "n", "t">>, <<"r", "o", "a", "m">>,
    <<"b", "r", "r", "r">>, <<"s", "k", "y">>, <<"l", "y", "n", "x">>,
    <<"c", "a", "b", "l", "e">>, <<"p", "e", "a", "r", "l">>, <<"v", "i", "v", "i", "d">>,
    <<"c", "r", "o", "w", "n">>, <<"f", "l", "u", "t", "e">>, <<"m", "a", "r", "c", "h">>,
    <<"s", "t", "o", "r", "k">>, <<"b", "l", "e", "n", "d">>, <<"q", "u", "a", "r", "t", "z">>,
    <<"p", "r", "i", "s", "m">>, <<"l", "o", "f", "t", "y">>, <<"a", "m", "b", "e", "r">>,
    <<"c", "l", "i", "m", "b">>, <<"c", "r", "e", "e", "k">>, <<"b", "o", "a", "r", "d">>,
    <<"s", "t", "a", "i", "n">>, <<"f", "l", "o", "c", "k">>, <<"m", "i", "r", "t", "h">>,
    <<"q", "u", "o", "t", "e">>, <<"p", "l", "a", "i", "n">>, <<"s", "p", "o", "r", "e">>,
    <<"t", "h", "r", "u", "m">>, <<"c", "r", "i", "s", "p">>, <<"g", "l", "a", "r", "e">>,
    <<"b", "r", "o", "w", "n">>, <<"s", "m", "e", "l", "t">>, <<"t", "r", "i", "c", "k">>,
    <<"s", "t", "o", "r", "m">>, <<"p", "l", "u", "m", "e">>, <<"c", "r", "a", "v", "e">>,
    <<"g", "n", "a", "s", "h">>, <<"s", "p", "i", "k", "e">>, <<"f", "r", "o", "t", "h">>,
    <<"c", "l", "o", "u", "t">>, <<"s", "p", "a", "r", "e">>, <<"b", "r", "i", "s", "k">>,
    <<"c", "l", "o", "u", "d">>, <<"b", "l", "a", "d", "e">>, <<"g", "r", "a", "i", "n">>,
    <<"s", "y", "r", "u", "p">>, <<"c", "r", "y", "p", "t">>, <<"r", "h", "y", "t", "h", "m">>,
    <<"s", "l", "y">>, <<"s", "p", "r", "y">>, <<"l", "y", "n", "c", "h">>,
    <<"s", "y", "l", "p", "h">>, <<"m", "y", "t", "h">>, <<"s", "h", "y">>,
    <<"t", "r", "u", "m", "p">>, <<"g", "l", "o", "s", "s">>, <<"a", "r", "b", "o", "r">>,
    <<"d", "r", "u", "i", "d">>, <<"m", "a", "u", "v", "e">>, <<"o", "x", "i", "d", "e">>,
    <<"p", "e", "r", "c", "h">>, <<"g", "r", "i", "n", "d">>, <<"c", "a", "n", "d", "o", "r">>,
    <<"e", "l", "o", "p", "e">>, <<"i", "r", "o", "n", "y">>, <<"u", "m", "b", "r", "a">>,
    <<"s", "h", "o", "r", "n">>, <<"t", "w", "e", "a", "k">>, <<"g", "r", "o", "v", "e">>,
    <<"p", "l", "u", "s", "h">>, <<"v", "a", "p", "o", "r">>, <<"e", "m", "b", "e", "r">>,
    <<"s", "c", "i", "o", "n">>, <<"w", "r", "i", "n", "g">>, <<"b", "l", "u", "n", "t">>,
    <<"c", "r", "o", "f", "t">>, <<"s", "m", "i", "r", "k">>, <<"d", "o", "w", "e", "l">> >>

\* B_list: the banned-letter sets, cycled step by step
LipogramB == << {"a"}, {"e"}, {"i"}, {"o"}, {"u"} >>

\* p0 = 0
LipogramP0 == 0

\* find_next_word from offset k of its scan on; the returned pair (word,
\* next_cursor) is a record, `found` telling a word from None
RECURSIVE find_next_word_from(_, _, _, _)
find_next_word_from(W, banned_set, cursor, k) ==
    LET n == Len(W) IN
    IF k >= n THEN [found |-> FALSE, word |-> <<>>, next_cursor |-> cursor]
    ELSE LET ii == (cursor + k) % n
         IN  IF Range(W[ii + 1]) \cap banned_set = {}
             THEN [found |-> TRUE, word |-> W[ii + 1], next_cursor |-> (ii + 1) % n]
             ELSE find_next_word_from(W, banned_set, cursor, k + 1)

\* a slip: the scan starts after the cursor, not at it
find_next_word_exclusive(W, banned_set, cursor) == find_next_word_from(W, banned_set, cursor, 1)

find_next_word(W, banned_set, cursor) == find_next_word_from(W, banned_set, cursor, 0)

\* the string "NO VALID WORD"
NoValidWord == <<"N", "O", " ", "V", "A", "L", "I", "D", " ", "W", "O", "R", "D">>

(***************************************************************************)
(* Python objects that are mutated in place                                *)
(*                                                                         *)
(* A working state that holds lists, arrays or dicts is a small heap: a    *)
(* record from object names to values, and references (object names) for   *)
(* the program variables.  Two variables alias when they hold one name.    *)
(***************************************************************************)
SeedObj == "seed_obj"

CopyObj == "copy_obj"

(***************************************************************************)
(* sci-bio-transposon-hops.py                                              *)
(***************************************************************************)
TransposonType == "transposon-hops-binary-halves-sum"

\* the value d0 is created with
TransposonD0 == <<0, 1, 0, 0, 1, 0, 0, 0, 1, 0, 1, 0, 0, 0, 0, 1>>

TransposonI0 == 1

\* hop_table = {"odd": +2, "even": -1}
TransposonHopTable == [odd |-> 2, even |-> -1]

\* r = i + 1; while r < L and d[r] != 1: r += 1 -- the value of r at loop exit
RECURSIVE transposon_search_right(_, _)
transposon_search_right(d, r) ==
    IF r < Len(d) /\ d[r + 1] # 1 THEN transposon_search_right(d, r + 1) ELSE r

\* a slip: the transposon hops but the head stays where it was
update_once_head_stays(d, i_, step_idx, hop_table) ==
    LET L == Len(d) IN
    IF d[i_ + 1] = 1
    THEN LET delta == IF step_idx % 2 = 1 THEN hop_table.odd ELSE hop_table.even
             j     == (i_ + delta) % L
         IN  [d |-> [d EXCEPT ![i_ + 1] = d[j + 1], ![j + 1] = d[i_ + 1]], i |-> i_]
    ELSE LET r == transposon_search_right(d, i_ + 1)
         IN  [d |-> d, i |-> IF r < L THEN r ELSE i_]

\* update_once on the value of the list d: the list after the call and the new head
update_once(d, i_, step_idx, hop_table) ==
    LET L == Len(d) IN
    IF d[i_ + 1] = 1
    THEN LET delta == IF step_idx % 2 = 1 THEN hop_table.odd ELSE hop_table.even
             j     == (i_ + delta) % L
         IN  [d |-> [d EXCEPT ![i_ + 1] = d[j + 1], ![j + 1] = d[i_ + 1]], i |-> j]
    ELSE LET r == transposon_search_right(d, i_ + 1)
         IN  [d |-> d, i |-> IF r < L THEN r ELSE i_]

\* val = (val << 1) | int(b) over the bits, from val
RECURSIVE bits_to_int_from(_, _)
bits_to_int_from(val, bits) ==
    IF bits = <<>> THEN val ELSE bits_to_int_from(2 * val + Head(bits), Tail(bits))

bits_to_int(bits) == bits_to_int_from(0, bits)

binary_halves_sum(d) ==
    LET L   == Len(d)
        mid == L \div 2
    IN  bits_to_int(SubSeq(d, 1, mid)) + bits_to_int(SubSeq(d, mid + 1, L))

\* a slip: d = d0, the working genome is the seed list itself
TransposonSeed_aliased ==
    [heap |-> [seed_obj |-> TransposonD0, copy_obj |-> TransposonD0],
     d0 |-> SeedObj, d |-> SeedObj, i |-> TransposonI0]

\* d0 = [...]; i0 = 1; d = deepcopy(d0); i = int(i0)
TransposonSeed ==
    [heap |-> [seed_obj |-> TransposonD0, copy_obj |-> TransposonD0],
     d0 |-> SeedObj, d |-> CopyObj, i |-> TransposonI0]

(***************************************************************************)
(* math-array-odd-swap.py                                                  *)
(***************************************************************************)
ArraySwapType == "linear-monotonicity-array-odd-swap"

\* the value init_A is created with
ArraySwapInitA == <<1, 2, 3, 5, 9, 3, 1, 1>>

ArraySwapM == 10

ArraySwapModNum == 11

\* update_array_one_step on the value of the array A: the array after the call
\* and the step contribution
update_array_one_step(A, m, t) ==
    LET K  == Len(A)
        ii == (t - 1) % K
        L  == (ii - 1) % K
        R  == (ii + 1) % K
        A1 == [A EXCEPT ![ii + 1] = (A[ii + 1] + A[L + 1]) % m]
        A2 == IF A1[ii + 1] % 2 = 1
              THEN [A1 EXCEPT ![ii + 1] = A1[R + 1], ![R + 1] = A1[ii + 1]]
              ELSE A1
    IN  [A |-> A2, val |-> A2[ii + 1]]

\* init_A = np.array([...]); A = deepcopy(init_A) % m; score_mod = 0
ArraySwapSeed ==
    [heap |-> [seed_obj |-> ArraySwapInitA,
               copy_obj |-> [k \in 1..Len(ArraySwapInitA) |-> ArraySwapInitA[k] % ArraySwapM]],
     init_A |-> SeedObj, A |-> CopyObj, score_mod |-> 0]

(***************************************************************************)
(* math-weighted-graph.py                                                  *)
(***************************************************************************)
GraphType == "linear-monotonicity-math-weighted-graph"

GraphV0 == 1

\* edges[u] = (first, second)
GraphEdges == << <<2, 3>>, <<3, 4>>, <<4, 1>>, <<1, 2>> >>

\* the value init_W is created with: W(1..4)
GraphInitW == <<2, 3, 1, 2>>

\* --mod_num, default 97
GraphModNum == 97

\* step_once on the value of the dict W: the dict after the call, next and add
graph_step_once(u, W, edges) ==
    LET Wu         == W[u]
        take_first == (Wu % 2 = 1)
        next_v     == IF take_first THEN edges[u][1] ELSE edges[u][2]
        add        == W[next_v]
    IN  [W |-> [W EXCEPT ![u] = (W[u] % 4) + 1], next |-> next_v, add |-> add]

\* v0 = 1; init_W = {...}; u = v0; W = dict(init_W); score = 0
GraphSeed ==
    [heap |-> [seed_obj |-> GraphInitW, copy_obj |-> GraphInitW],
     init_W |-> SeedObj, W |-> CopyObj, u |-> GraphV0, score |-> 0]

(***************************************************************************)
(* lang-lexical-antonym-synonym-chain.py                                   *)
(***************************************************************************)
LexicalType == "lexical-antonym-synonym-chain"

\* PAIRS_LIST, one (x, y) per line
PAIRS_LIST == <<
    << <<"t", "r", "u", "e">>, <<"f", "a", "l", "s", "e">> >>,
    << <<"l", "e", "f", "t">>, <<"r", "i", "g", "h", "t">> >>,
    << <<"b", "r", "i", "g", "h", "t">>, <<"d", "a", "r", "k">> >>,
    << <<"n", "e", "a", "r">>, <<"f", "a", "r">> >>,
    << <<"r", "i", "c", "h">>, <<"p", "o", "o", "r">> >>,
    << <<"v", "i", "s", "i", "b", "l", "e">>, <<"h", "i", "d", "d", "e", "n">> >>,
    << <<"t", "h", "i", "n">>, <<"f", "a", "t">> >>,
    << <<"h", "e", "a", "v", "y">>, <<"l", "i", "g", "h", "t">> >>,
    << <<"d", "o", "m", "e", "s", "t", "i", "c">>, <<"f", "o", "r", "e", "i", "g", "n">> >>,
    << <<"f", "i", "c", "t", "i", "o", "n">>, <<"n", "o", "n", "f", "i", "c", "t", "i", "o", "n">> >>,
    << <<"n", "a", "r", "r", "o", "w">>, <<"b", "r", "o", "a", "d">> >>,
    << <<"p", "r", "e", "s", "e", "n", "t">>, <<"p", "a", "s", "t">> >>,
    << <<"p", "r", "o", "f", "i", "t">>, <<"l", "o", "s", "s">> >>,
    << <<"p", "u", "s", "h">>, <<"p", "u", "l", "l">> >>,
    << <<"b", "o", "r", "r", "o", "w", "e", "r">>, <<"l", "e", "n", "d", "e", "r">> >>,
    << <<"l", "e", "a", "d", "e", "r">>, <<"f", "o", "l", "l", "o", "w", "e", "r">> >>,
    << <<"b", "i", "r", "t", "h">>, <<"d", "e", "a", "t", "h">> >>,
    << <<"v", "i", "c", "t", "o", "r", "y">>, <<"d", "e", "f", "e", "a", "t">> >>,
    << <<"n", "e", "u", "t", "r", "a", "l">>, <<"b", "i", "a", "s", "e", "d">> >>,
    << <<"p", "o", "s", "i", "t", "i", "v", "e">>, <<"n", "e", "g", "a", "t", "i", "v", "e">> >> >>

\* a Python dict built from a list of (key, value) items: a later item with
\* the same key replaces an earlier one
DictOf(items) ==
    [key \in {items[k][1] : k \in 1..Len(items)} |->
        LET last == CHOOSE k \in 1..Len(items) :
                        /\ items[k][1] = key
                        /\ \A k2 \in 1..Len(items) : items[k2][1] = key => k2 <= k
        IN  items[last][2]]

\* the items PAIRS_MAP[a] = b; PAIRS_MAP[b] = a, pair after pair
RECURSIVE PairsItems(_)
PairsItems(pairs) ==
    IF pairs = <<>> THEN <<>>
    ELSE << Head(pairs), <<Head(pairs)[2], Head(pairs)[1]>> >> \o PairsItems(Tail(pairs))

PAIRS_MAP == DictOf(PairsItems(PAIRS_LIST))

\* a slip: the entry that closes the 40-cycle, "biased" -> "bright", is missing
SYN_MAP_open == DictOf(<<
    << <<"b", "r", "i", "g", "h", "t">>, <<"l", "i", "g", "h", "t">> >>,
    << <<"l", "i", "g", "h", "t">>, <<"v", "i", "s", "i", "b", "l", "e">> >>,
    << <<"v", "i", "s", "i", "b", "l", "e">>, <<"t", "r", "u", "e">> >>,
    << <<"t", "r", "u", "e">>, <<"p", "o", "s", "i", "t", "i", "v", "e">> >>,
    << <<"p", "o", "s", "i", "t", "i", "v", "e">>, <<"v", "i", "c", "t", "o", "r", "y">> >>,
    << <<"v", "i", "c", "t", "o", "r", "y">>, <<"p", "r", "o", "f", "i", "t">> >>,
    << <<"p", "r", "o", "f", "i", "t">>, <<"r", "i", "c", "h">> >>,
    << <<"r", "i", "c", "h">>, <<"l", "e", "a", "d", "e", "r">> >>,
    << <<"l", "e", "a", "d", "e", "r">>, <<"b", "o", "r", "r", "o", "w", "e", "r">> >>,
    << <<"b", "o", "r", "r", "o", "w", "e", "r">>, <<"p", "r", "e", "s", "e", "n", "t">> >>,
    << <<"p", "r", "e", "s", "e", "n", "t">>, <<"n", "e", "a", "r">> >>,
    << <<"n", "e", "a", "r">>, <<"n", "a", "r", "r", "o", "w">> >>,
    << <<"n", "a", "r", "r", "o", "w">>, <<"t", "h", "i", "n">> >>,
    << <<"t", "h", "i", "n">>, <<"d", "o", "m", "e", "s", "t", "i", "c">> >>,
    << <<"d", "o", "m", "e", "s", "t", "i", "c">>, <<"f", "i", "c", "t", "i", "o", "n">> >>,
    << <<"f", "i", "c", "t", "i", "o", "n">>, <<"b", "i", "r", "t", "h">> >>,
    << <<"b", "i", "r", "t", "h">>, <<"l", "e", "f", "t">> >>,
    << <<"l", "e", "f", "t">>, <<"p", "u", "s", "h">> >>,
    << <<"p", "u", "s", "h">>, <<"h", "e", "a", "v", "y">> >>,
    << <<"h", "e", "a", "v", "y">>, <<"d", "a", "r", "k">> >>,
    << <<"d", "a", "r", "k">>, <<"h", "i", "d", "d", "e", "n">> >>,
    << <<"h", "i", "d", "d", "e", "n">>, <<"f", "a", "l", "s", "e">> >>,
    << <<"f", "a", "l", "s", "e">>, <<"n", "e", "g", "a", "t", "i", "v", "e">> >>,
    << <<"n", "e", "g", "a", "t", "i", "v", "e">>, <<"d", "e", "f", "e", "a", "t">> >>,
    << <<"d", "e", "f", "e", "a", "t">>, <<"l", "o", "s", "s">> >>,
    << <<"l", "o", "s", "s">>, <<"p", "o", "o", "r">> >>,
    << <<"p", "o", "o", "r">>, <<"l", "e", "n", "d", "e", "r">> >>,
    << <<"l", "e", "n", "d", "e", "r">>, <<"p", "a", "s", "t">> >>,
    << <<"p", "a", "s", "t">>, <<"f", "a", "r">> >>,
    << <<"f", "a", "r">>, <<"b", "r", "o", "a", "d">> >>,
    << <<"b", "r", "o", "a", "d">>, <<"f", "a", "t">> >>,
    << <<"f", "a", "t">>, <<"f", "o", "r", "e", "i", "g", "n">> >>,
    << <<"f", "o", "r", "e", "i", "g", "n">>, <<"n", "o", "n", "f", "i", "c", "t", "i", "o", "n">> >>,
    << <<"n", "o", "n", "f", "i", "c", "t", "i", "o", "n">>, <<"d", "e", "a", "t", "h">> >>,
    << <<"d", "e", "a", "t", "h">>, <<"r", "i", "g", "h", "t">> >>,
    << <<"r", "i", "g", "h", "t">>, <<"p", "u", "l", "l">> >>,
    << <<"p", "u", "l", "l">>, <<"n", "e", "u", "t", "r", "a", "l">> >>,
    << <<"n", "e", "u", "t", "r", "a", "l">>, <<"f", "o", "l", "l", "o", "w", "e", "r">> >>,
    << <<"f", "o", "l", "l", "o", "w", "e", "r">>, <<"b", "i", "a", "s", "e", "d">> >> >>)

SYN_MAP == DictOf(<<
    << <<"b", "r", "i", "g", "h", "t">>, <<"l", "i", "g", "h", "t">> >>,
    << <<"l", "i", "g", "h", "t">>, <<"v", "i", "s", "i", "b", "l", "e">> >>,
    << <<"v", "i", "s", "i", "b", "l", "e">>, <<"t", "r", "u", "e">> >>,
    << <<"t", "r", "u", "e">>, <<"p", "o", "s", "i", "t", "i", "v", "e">> >>,
    << <<"p", "o", "s", "i", "t", "i", "v", "e">>, <<"v", "i", "c", "t", "o", "r", "y">> >>,
    << <<"v", "i", "c", "t", "o", "r", "y">>, <<"p", "r", "o", "f", "i", "t">> >>,
    << <<"p", "r", "o", "f", "i", "t">>, <<"r", "i", "c", "h">> >>,
    << <<"r", "i", "c", "h">>, <<"l", "e", "a", "d", "e", "r">> >>,
    << <<"l", "e", "a", "d", "e", "r">>, <<"b", "o", "r", "r", "o", "w", "e", "r">> >>,
    << <<"b", "o", "r", "r", "o", "w", "e", "r">>, <<"p", "r", "e", "s", "e", "n", "t">> >>,
    << <<"p", "r", "e", "s", "e", "n", "t">>, <<"n", "e", "a", "r">> >>,
    << <<"n", "e", "a", "r">>, <<"n", "a", "r", "r", "o", "w">> >>,
    << <<"n", "a", "r", "r", "o", "w">>, <<"t", "h", "i", "n">> >>,
    << <<"t", "h", "i", "n">>, <<"d", "o", "m", "e", "s", "t", "i", "c">> >>,
    << <<"d", "o", "m", "e", "s", "t", "i", "c">>, <<"f", "i", "c", "t", "i", "o", "n">> >>,
    << <<"f", "i", "c", "t", "i", "o", "n">>, <<"b", "i", "r", "t", "h">> >>,
    << <<"b", "i", "r", "t", "h">>, <<"l", "e", "f", "t">> >>,
    << <<"l", "e", "f", "t">>, <<"p", "u", "s", "h">> >>,
    << <<"p", "u", "s", "h">>, <<"h", "e", "a", "v", "y">> >>,
    << <<"h", "e", "a", "v", "y">>, <<"d", "a", "r", "k">> >>,
    << <<"d", "a", "r", "k">>, <<"h", "i", "d", "d", "e", "n">> >>,
    << <<"h", "i", "d", "d", "e", "n">>, <<"f", "a", "l", "s", "e">> >>,
    << <<"f", "a", "l", "s", "e">>, <<"n", "e", "g", "a", "t", "i", "v", "e">> >>,
    << <<"n", "e", "g", "a", "t", "i", "v", "e">>, <<"d", "e", "f", "e", "a", "t">> >>,
    << <<"d", "e", "f", "e", "a", "t">>, <<"l", "o", "s", "s">> >>,
    << <<"l", "o", "s", "s">>, <<"p", "o", "o", "r">> >>,
    << <<"p", "o", "o", "r">>, <<"l", "e", "n", "d", "e", "r">> >>,
    << <<"l", "e", "n", "d", "e", "r">>, <<"p", "a", "s", "t">> >>,
    << <<"p", "a", "s", "t">>, <<"f", "a", "r">> >>,
    << <<"f", "a", "r">>, <<"b", "r", "o", "a", "d">> >>,
    << <<"b", "r", "o", "a", "d">>, <<"f", "a", "t">> >>,
    << <<"f", "a", "t">>, <<"f", "o", "r", "e", "i", "g", "n">> >>,
    << <<"f", "o", "r", "e", "i", "g", "n">>, <<"n", "o", "n", "f", "i", "c", "t", "i", "o", "n">> >>,
    << <<"n", "o", "n", "f", "i", "c", "t", "i", "o", "n">>, <<"d", "e", "a", "t", "h">> >>,
    << <<"d", "e", "a", "t", "h">>, <<"r", "i", "g", "h", "t">> >>,
    << <<"r", "i", "g", "h", "t">>, <<"p", "u", "l", "l">> >>,
    << <<"p", "u", "l", "l">>, <<"n", "e", "u", "t", "r", "a", "l">> >>,
    << <<"n", "e", "u", "t", "r", "a", "l">>, <<"f", "o", "l", "l", "o", "w", "e", "r">> >>,
    << <<"f", "o", "l", "l", "o", "w", "e", "r">>, <<"b", "i", "a", "s", "e", "d">> >>,
    << <<"b", "i", "a", "s", "e", "d">>, <<"b", "r", "i", "g", "h", "t">> >> >>)

\* set("acegikmoqsuwy")
ODD_LETTERS == {"a", "c", "e", "g", "i", "k", "m", "o", "q", "s", "u", "w", "y"}

\* --start_word, default "true"
LexicalStartWord == <<"t", "r", "u", "e">>

\* update_word: the word returned, or the exception raised
update_word(word) ==
    IF word = <<>> THEN [exc |-> "ValueError", word |-> word]
    ELSE LET first == Lower(word[1]) IN
         IF first \in ODD_LETTERS
         THEN IF word \notin DOMAIN PAIRS_MAP
              THEN [exc |-> "KeyError", word |-> word]
              ELSE [exc |-> "none", word |-> PAIRS_MAP[word]]
         ELSE IF word \notin DOMAIN SYN_MAP
              THEN [exc |-> "KeyError", word |-> word]
              ELSE [exc |-> "none", word |-> SYN_MAP[word]]

\* init_word = args.start_word.strip().lower(); current_word = init_word
LexicalSeed(start_word) == [init_word |-> start_word, current_word |-> start_word]

(***************************************************************************)
(* code-9-top-torus-ant.py                                                 *)
(***************************************************************************)
TorusType == "torus-ant-torus-wrap"

\* --init_state default "5;;0,0,0": side 5, all cells 0, start (0, 0), up
TorusL == 5

TorusInitGrid == [rr \in 1..TorusL |-> [cc \in 1..TorusL |-> 0]]

TorusInitR == 0

TorusInitC == 0

TorusInitD == 0

\* the two list objects successive calls of update_torus_ant allocate in turn
\* (the result of one call is the argument of the next, the older one is garbage)
TorusObjA == "obj_a"

TorusObjB == "obj_b"

\* the move of the ant: the new (r, c) for direction d
torus_move(r, c, d, H, W) ==
    IF d = 0 THEN [r |-> (r - 1) % H, c |-> c]
    ELSE IF d = 1 THEN [r |-> r, c |-> (c + 1) % W]
    ELSE IF d = 2 THEN [r |-> (r + 1) % H, c |-> c]
    ELSE [r |-> r, c |-> (c - 1) % W]

\* a slip: ng = grid, the function flips the cell in the list it was given
update_torus_ant_in_place(grid, r, c, d) ==
    LET H   == Len(grid)
        W   == Len(grid[1])
        d2  == IF grid[r + 1][c + 1] = 0 THEN (d + 1) % 4 ELSE (d + 3) % 4
        ng  == [grid EXCEPT ![r + 1][c + 1] = IF grid[r + 1][c + 1] = 0 THEN 1 ELSE 0]
        pos == torus_move(r, c, d2, H, W)
    IN  [arg |-> ng, ng |-> ng, r |-> pos.r, c |-> pos.c, d |-> d2]

\* update_torus_ant((grid, r, c, d)): the returned (ng, r, c, d), and in `arg`
\* the value the list passed as grid holds when the function returns
update_torus_ant(grid, r, c, d) ==
    LET H   == Len(grid)
        W   == Len(grid[1])
        ng0 == grid
        d2  == IF ng0[r + 1][c + 1] = 0 THEN (d + 1) % 4 ELSE (d + 3) % 4
        ng  == [ng0 EXCEPT ![r + 1][c + 1] = IF ng0[r + 1][c + 1] = 0 THEN 1 ELSE 0]
        pos == torus_move(r, c, d2, H, W)
    IN  [arg |-> grid, ng |-> ng, r |-> pos.r, c |-> pos.c, d |-> d2]

\* sum(sum(row) for row in grid)
RECURSIVE SumSeq(_)
SumSeq(xs) == IF xs = <<>> THEN 0 ELSE Head(xs) + SumSeq(Tail(xs))

TorusOnes(grid) == SumSeq([rr \in 1..Len(grid) |-> SumSeq(grid[rr])])

\* f"{r},{c},{d},{ones}"
TorusAnswer(r, c, d, ones) ==
    Str(r) \o <<",">> \o Str(c) \o <<",">> \o Str(d) \o <<",">> \o Str(ones)

\* init_grid, init_r, init_c, init_d = parse_init_state(args.init_state);
\* the first call is given init_grid itself
TorusSeed ==
    [heap |-> [seed_obj |-> TorusInitGrid, obj_a |-> TorusInitGrid, obj_b |-> TorusInitGrid],
     grid |-> SeedObj, r |-> TorusInitR, c |-> TorusInitC, d |-> TorusInitD]

(***************************************************************************)
(* sci-phys-momentum-buckets.py                                            *)
(***************************************************************************)
MomentumType == "phys-momentum-buckets-S2"

\* --M, default 97
MomentumM == 97

\* --tau_low, default 5
MomentumTauLow == 5

\* --tau_high, default 9
MomentumTauHigh == 9

\* --recycle_period, default 4
MomentumRecyclePeriod == 4

\* --debt_threshold, default 3
MomentumDebtThreshold == 3

\* --p0 --p1 --p2 --f0 --g0 --c0, defaults 5 0 3 0 0 0
MomentumStart == [p0 |-> 5, p1 |-> 0, p2 |-> 3, f |-> 0, g |-> 0, c |-> 0]

\* --w0 --w1 --w2 --wf --wg --wc, defaults 1 2 3 4 5 1
MomentumWeights == [w0 |-> 1, w1 |-> 2, w2 |-> 3, wf |-> 4, wg |-> 5, wc |-> 1]

\* args as parse_args() returns it when no flag is given
MomentumDefaultArgs ==
    [M |-> MomentumM, tau_low |-> MomentumTauLow, tau_high |-> MomentumTauHigh,
     recycle_period |-> MomentumRecyclePeriod,
     debt_threshold |-> MomentumDebtThreshold,
     start |-> MomentumStart, weights |-> MomentumWeights]

\* the assertions main() makes on its arguments
MomentumArgsOk(n, args) ==
    /\ n >= 1
    /\ args.M >= 3
    /\ 1 <= args.tau_low
    /\ args.tau_low <= args.tau_high
    /\ args.tau_high < args.M
    /\ args.start.p0 >= 0
    /\ args.start.p1 >= 0
    /\ args.start.p2 >= 0
    /\ args.start.c >= 0

\* a slip: a settlement out of p2 forgets p0 += 1
RECURSIVE settle_debt_p2_lost(_, _)
settle_debt_p2_lost(s, debt_threshold) ==
    IF s.c >= debt_threshold
    THEN LET s1 == [s EXCEPT !.c = @ - debt_threshold]
         IN  IF s1.p2 > 0
             THEN settle_debt_p2_lost([s1 EXCEPT !.p2 = @ - 1,
                                                 !.settled = @ + 1], debt_threshold)
             ELSE IF s1.p1 > 0
             THEN settle_debt_p2_lost([s1 EXCEPT !.p1 = @ - 1, !.p0 = @ + 1,
                                                 !.settled = @ + 1], debt_threshold)
             ELSE s1
    ELSE s

\* while c >= debt_threshold: c -= debt_threshold; move one unit from p2, else
\* from p1, to p0; break when there is nothing to move
RECURSIVE settle_debt(_, _)
settle_debt(s, debt_threshold) ==
    IF s.c >= debt_threshold
    THEN LET s1 == [s EXCEPT !.c = @ - debt_threshold]
         IN  IF s1.p2 > 0
             THEN settle_debt([s1 EXCEPT !.p2 = @ - 1, !.p0 = @ + 1,
                                         !.settled = @ + 1], debt_threshold)
             ELSE IF s1.p1 > 0
             THEN settle_debt([s1 EXCEPT !.p1 = @ - 1, !.p0 = @ + 1,
                                         !.settled = @ + 1], debt_threshold)
             ELSE s1
    ELSE s

\* step_once_hard: the primary branch A/B/C, the debt settlement, the periodic
\* recycle; returns the new (p0, p1, p2, f, g, c) and what the label tells:
\* the branch taken, the number of settlements, whether the recycle triggered
step_once_hard(st, tau_low, tau_high, recycle_period, debt_threshold, t) ==
    LET tau_eff == IF st.f = 0 THEN tau_high ELSE tau_low
        primary ==
            IF st.p0 >= tau_eff
            THEN LET p1 == st.p1 + 1
                 IN  [p0 |-> st.p0 - 1, p1 |-> p1, p2 |-> st.p2, f |-> 1 - st.f,
                      g |-> IF p1 % 2 = 1 THEN 1 - st.g ELSE st.g, c |-> st.c,
                      branch |-> "A", settled |-> 0, recycled |-> FALSE]
            ELSE IF st.p1 > 0
            THEN LET p2 == st.p2 + 1
                 IN  [p0 |-> st.p0, p1 |-> st.p1 - 1, p2 |-> p2, f |-> st.f,
                      g |-> IF p2 % 2 = 0 THEN 1 - st.g ELSE st.g, c |-> st.c,
                      branch |-> "B", settled |-> 0, recycled |-> FALSE]
            ELSE [p0 |-> st.p0, p1 |-> st.p1 + 1, p2 |-> st.p2, f |-> st.f,
                  g |-> st.g, c |-> st.c + 1, branch |-> "C", settled |-> 0,
                  recycled |-> FALSE]
        settled == settle_debt(primary, debt_threshold)
    IN  IF recycle_period > 0 /\ t % recycle_period = 0 /\ settled.p2 >= 2
        THEN [settled EXCEPT !.p2 = @ - 2, !.p0 = @ + 1, !.f = 1 - @,
                             !.recycled = TRUE]
        ELSE settled

\* total_weighted % M
MomentumGt(st, args) ==
    (args.weights.w0 * st.p0 + args.weights.w1 * st.p1
        + args.weights.w2 * st.p2 + args.weights.wf * st.f
        + args.weights.wg * st.g + args.weights.wc * st.c) % args.M

\* the variable `branch` before the first step
MomentumNoLabel == [branch |-> "none", settled |-> 0, recycled |-> FALSE]

\* p0, p1, p2 = args.p0, args.p1, args.p2; f, g, c = args.f0, args.g0, args.c0
MomentumSeedOf(args) ==
    [p0 |-> args.start.p0, p1 |-> args.start.p1, p2 |-> args.start.p2,
     f |-> args.start.f, g |-> args.start.g, c |-> args.start.c,
     label |-> MomentumNoLabel, args |-> args]

MomentumSeed == MomentumSeedOf(MomentumDefaultArgs)

(***************************************************************************)
(* math-complex_v1.py                                                      *)
(***************************************************************************)
ComplexType == "linear-monotonicity-matrix-harder"

\* init_complex = np.array([5, 2]): (real part, imaginary part)
ComplexSeed == <<5, 2>>

ComplexMod == 31

\* np.min of a pair
MinOfPair(p) == IF p[1] <= p[2] THEN p[1] ELSE p[2]

\* add 1 to both parts, conjugate, replace both parts of the conjugate by
\* their minimum, multiply, reduce both parts modulo mod_num
update_complex(complex, mod_num) ==
    LET added   == <<complex[1] + 1, complex[2] + 1>>
        conj    == <<added[1] * 1, added[2] * (-1)>>
        flat    == <<MinOfPair(conj), MinOfPair(conj)>>
        product == <<added[1] * flat[1] - added[2] * flat[2],
                     added[1] * flat[2] + added[2] * flat[1]>>
    IN  <<product[1] % mod_num, product[2] % mod_num>>

(***************************************************************************)
(* sci-bio-enzyme-cascade-fsm.py                                           *)
(***************************************************************************)
FsmType == "enzyme-cascade-fsm-tertiary-input"

FsmE0 == 0

FsmEtar == 2

\* T[i, j]: row i + 1, column j + 1
FsmT == << <<0, 1, 2>>, <<2, 3, 1>>, <<3, 2, 4>>, <<1, 4, 3>>, <<4, 0, 2>> >>

\* the ring buffer u[0..L-1]
FsmU == <<2, 0, 1, 2>>

\* the rows of table_lines below its two header lines, one cell per "|" field
FsmTableLines == <<
    <<"E0", "E0", "E1", "E2">>,
    <<"E1", "E2", "E3", "E1">>,
    <<"E2", "E3", "E2", "E4">>,
    <<"E3", "E1", "E4", "E3">>,
    <<"E4", "E4", "E0", "E2">> >>

\* a slip: t taken 0-based, as the docstring of update_fsm has it
update_fsm_zero_based(st, cnt, T, u, Etar, t) ==
    LET ut        == u[((t - 1) % Len(u)) + 1]
        new_state == T[st + 1][ut + 1]
    IN  [state |-> new_state, cnt |-> cnt + (IF new_state = Etar THEN 1 ELSE 0)]

\* ut = u[t % len(u)]; new_state = T[state, ut]; cnt + 1 on the target state
update_fsm(st, cnt, T, u, Etar, t) ==
    LET ut        == u[(t % Len(u)) + 1]
        new_state == T[st + 1][ut + 1]
    IN  [state |-> new_state, cnt |-> cnt + (IF new_state = Etar THEN 1 ELSE 0)]

\* state = E0; cnt = 0
FsmSeed == [state |-> FsmE0, cnt |-> 0]

(***************************************************************************)
(* math-cellular-automaton-v1.py                                           *)
(***************************************************************************)
CaType == "linear-monotonicity-cellular-automaton"

\* init_bi_string
CaSeed == <<0, 1, 0, 0, 0, 0, 1>>

\* the dict `rules`: (left, center, right) -> new bit
CaRules ==
    [nb \in {0, 1} \X {0, 1} \X {0, 1} |->
        CASE nb = <<0, 0, 0>> -> 0
          [] nb = <<0, 0, 1>> -> 1
          [] nb = <<0, 1, 0>> -> 1
          [] nb = <<1, 0, 0>> -> 1
          [] nb = <<1, 1, 0>> -> 0
          [] nb = <<1, 0, 1>> -> 0
          [] nb = <<0, 1, 1>> -> 1
          [] nb = <<1, 1, 1>> -> 0]

\* a slip: the neighbourhood is read right to left
ca_update_complex_mirrored(bi_string) ==
    LET L == Len(bi_string)
    IN  [k \in 1..L |->
            LET idx    == k - 1
                left   == bi_string[((idx - 1) % L) + 1]
                center == bi_string[idx + 1]
                right  == bi_string[((idx + 1) % L) + 1]
            IN  CaRules[<<right, center, left>>]]

\* update_complex of this script: bi_string[i-1] is the last element when
\* i = 0 (Python's negative index), the right neighbour is taken modulo the length
ca_update_complex(bi_string) ==
    LET L == Len(bi_string)
    IN  [k \in 1..L |->
            LET idx    == k - 1
                left   == IF idx - 1 < 0 THEN bi_string[L + idx] ELSE bi_string[idx]
                center == bi_string[idx + 1]
                right  == bi_string[((idx + 1) % L) + 1]
            IN  CaRules[<<left, center, right>>]]

\* sum of updated_bi_string[i] * 2**(len - 1 - i)
RECURSIVE CaBigEndianFrom(_, _)
CaBigEndianFrom(bits, k) ==
    IF k > Len(bits) THEN 0
    ELSE bits[k] * 2^(Len(bits) - k) + CaBigEndianFrom(bits, k + 1)

CaBigEndian(bits) == CaBigEndianFrom(bits, 1)

(***************************************************************************)
(* math-boolean-rotflip-3x3.py                                             *)
(***************************************************************************)
RotflipType == "linear-mono-math-boolean-rotflip-3x3"

\* init_board, rows 0..2 at positions 1..3
RotflipInitBoard == << <<0, 1, 0>>, <<1, 0, 1>>, <<0, 1, 1>> >>

RotflipModNum == 1000

\* a slip: np.rot90(board, 1), the rotation counter-clockwise
rotate90_ccw(board) ==
    [r \in 1..3 |-> [c \in 1..3 |-> board[c][4 - r]]]

\* np.rot90(board, -1): row r of the result is column r of board read bottom up
rotate90_cw(board) ==
    [r \in 1..3 |-> [c \in 1..3 |-> board[4 - c][r]]]

\* safe(F, r, c) with 0-based r, c: 0 outside the board
RotflipSafe(F, r, c) ==
    IF 0 <= r /\ r < 3 /\ 0 <= c /\ c < 3 THEN F[r + 1][c + 1] ELSE 0

\* a ^ b on bits
BitXor(a, b) == (a + b) % 2

\* step_update: (next_board, ones)
step_update(board) ==
    LET R == rotate90_cw(board)
        F == [R EXCEPT ![2][2] = BitXor(@, 1)]
        H == [r \in 1..3 |-> [c \in 1..3 |->
                IF r = 2 /\ c = 2 THEN F[2][2]
                ELSE BitXor(BitXor(RotflipSafe(F, r - 2, c - 1), RotflipSafe(F, r, c - 1)),
                            BitXor(RotflipSafe(F, r - 1, c - 2), RotflipSafe(F, r - 1, c)))]]
    IN  [board |-> H, ones |-> H[3][1] + H[2][2] + H[1][3]]

\* board = init_board.copy(); score_mod = 0
RotflipSeed == [board |-> RotflipInitBoard, score_mod |-> 0]

(***************************************************************************)
(* math-tri-register-extreme-xor.py                                        *)
(***************************************************************************)
TriRegType == "tri-register-extreme-xor"

\* init_registers = (a0, b0, c0)
TriRegInit == <<1, 2, 3>>

\* p, the per-step modulus
TriRegP == 31

\* mod_num, the final output modulus M
TriRegModNum == 97

\* x ^ y on non-negative integers
RECURSIVE IntXor(_, _)
IntXor(x, y) ==
    IF x = 0 THEN y
    ELSE IF y = 0 THEN x
    ELSE (((x % 2) + (y % 2)) % 2) + 2 * IntXor(x \div 2, y \div 2)

\* a slip: the update of step 2 is not reduced modulo p
update_registers_unreduced(registers, p, t) ==
    LET a  == registers[1]
        b  == registers[2]
        c  == registers[3]
        u  == IF a >= b THEN a ELSE b
        v  == Min(b, c)
        w  == Abs(a - c)
        na == u + v
        nb == v + w
        nc == w + u
        r  == t % 3
    IN  IF r = 0 THEN <<IntXor(na, nb), nb, nc>>
        ELSE IF r = 1 THEN <<na, IntXor(nb, nc), nc>>
        ELSE <<na, nb, IntXor(nc, na)>>

\* update_registers: u, v, w; the update modulo p; the XOR chosen by t % 3
update_registers(registers, p, t) ==
    LET a  == registers[1]
        b  == registers[2]
        c  == registers[3]
        u  == IF a >= b THEN a ELSE b
        v  == Min(b, c)
        w  == Abs(a - c)
        na == (u + v) % p
        nb == (v + w) % p
        nc == (w + u) % p
        r  == t % 3
    IN  IF r = 0 THEN <<IntXor(na, nb), nb, nc>>
        ELSE IF r = 1 THEN <<na, IntXor(nb, nc), nc>>
        ELSE <<na, nb, IntXor(nc, na)>>

(***************************************************************************)
(* lang-8-mirror-pointer-fixer.py                                          *)
(***************************************************************************)
PointerType == "palindrome-pointer-fixer"

\* init_word, one character per element
PointerInitWord == <<
    "b", "d", "p", "q", "a", "m", "q", "x", "t", "v", "a", "s", "d", "i", "f",
    "u", "h", "a", "s", "d", "g", "n", "k", "j", "a", "s", "d", "f", "o", "i",
    "s", "a", "p", "o", "q", "e", "w", "z", "x", "c", "v", "i", "d", "e", "n",
    "v", "d", "s", "c", "k", "j", "v", "b", "x", "z", "c", "b", "e", "r" >>

\* build_mirror_map: pairs
MirrorPairs == << <<"b", "d">>, <<"p", "q">> >>

\* self_chars
MirrorSelfChars == {"a", "c", "e", "h", "i", "l", "m", "n", "o", "s", "t", "u", "v", "w", "x", "y", "z"}

\* build_mirror_map(): each pair both ways; then every self char to itself
\* (a later assignment of the same key wins)
MirrorMap ==
    [ch \in {MirrorPairs[k][1] : k \in 1..Len(MirrorPairs)}
            \cup {MirrorPairs[k][2] : k \in 1..Len(MirrorPairs)}
            \cup MirrorSelfChars |->
        IF ch \in MirrorSelfChars THEN ch
        ELSE IF \E k \in 1..Len(MirrorPairs) : MirrorPairs[k][2] = ch
        THEN MirrorPairs[CHOOSE k \in 1..Len(MirrorPairs) : MirrorPairs[k][2] = ch][1]
        ELSE MirrorPairs[CHOOSE k \in 1..Len(MirrorPairs) : MirrorPairs[k][1] = ch][2]]

\* mirror.get(ch, ch)
MirrorGet(mirror, ch) == IF ch \in DOMAIN mirror THEN mirror[ch] ELSE ch

\* first_unmatched_pair: the first 0-based i with word[i] != mirror(word[m-1-i])
first_unmatched_pair(word, mirror) ==
    LET m   == Len(word)
        bad == {k \in 0..(m - 1) : word[k + 1] # MirrorGet(mirror, word[m - k])}
    IN  IF bad = {} THEN [found |-> FALSE, i |-> 0, j |-> 0]
        ELSE LET k == CHOOSE x \in bad : \A y \in bad : x <= y
             IN  [found |-> TRUE, i |-> k, j |-> m - 1 - k]

\* w = list(w0); L = 0; R = m - 1
PointerStart(w0) == [w |-> w0, L |-> 0, R |-> Len(w0) - 1]

\* a slip: a mirror-matching pair has its right letter overwritten with the
\* left letter itself
pointer_step_copy_left(ms, mirror) ==
    LET m     == Len(ms.w)
        left  == ms.w[ms.L + 1]
        right == ms.w[ms.R + 1]
        w1    == IF left # MirrorGet(mirror, right)
                 THEN [ms.w EXCEPT ![ms.R + 1] = MirrorGet(mirror, left)]
                 ELSE [ms.w EXCEPT ![ms.R + 1] = left]
        L1    == ms.L + 1
        R1    == ms.R - 1
        um    == first_unmatched_pair(w1, mirror)
    IN  IF L1 > R1
        THEN IF um.found THEN [w |-> w1, L |-> um.i, R |-> um.j]
             ELSE [w |-> w1, L |-> 0, R |-> m - 1]
        ELSE [w |-> w1, L |-> L1, R |-> R1]

\* a slip: a mismatching pair has its right letter overwritten with the left
\* letter, not with its mirror
pointer_step_no_mirror(ms, mirror) ==
    LET m     == Len(ms.w)
        left  == ms.w[ms.L + 1]
        right == ms.w[ms.R + 1]
        w1    == IF left # MirrorGet(mirror, right)
                 THEN [ms.w EXCEPT ![ms.R + 1] = left]
                 ELSE [ms.w EXCEPT ![ms.L + 1] = MirrorGet(mirror, right)]
        L1    == ms.L + 1
        R1    == ms.R - 1
        um    == first_unmatched_pair(w1, mirror)
    IN  IF L1 > R1
        THEN IF um.found THEN [w |-> w1, L |-> um.i, R |-> um.j]
             ELSE [w |-> w1, L |-> 0, R |-> m - 1]
        ELSE [w |-> w1, L |-> L1, R |-> R1]

\* one pass of the body of `for _ in range(steps)` of run_pointer_machine
pointer_step(ms, mirror) ==
    LET m     == Len(ms.w)
        left  == ms.w[ms.L + 1]
        right == ms.w[ms.R + 1]
        w1    == IF left # MirrorGet(mirror, right)
                 THEN [ms.w EXCEPT ![ms.R + 1] = MirrorGet(mirror, left)]
                 ELSE [ms.w EXCEPT ![ms.L + 1] = MirrorGet(mirror, right)]
        L1    == ms.L + 1
        R1    == ms.R - 1
        um    == first_unmatched_pair(w1, mirror)
    IN  IF L1 > R1
        THEN IF um.found THEN [w |-> w1, L |-> um.i, R |-> um.j]
             ELSE [w |-> w1, L |-> 0, R |-> m - 1]
        ELSE [w |-> w1, L |-> L1, R |-> R1]

\* the machine after `steps` passes of the loop from ms
RECURSIVE pointer_loop(_, _, _)
pointer_loop(ms, steps, mirror) ==
    IF steps = 0 THEN ms
    ELSE LET ms1 == pointer_step(ms, mirror)
         IN  IF ms1.L >= 0 THEN pointer_loop(ms1, steps - 1, mirror) ELSE ms1

\* run_pointer_machine(w0, steps, mirror): "".join(w)
run_pointer_machine(w0, steps, mirror) == pointer_loop(PointerStart(w0), steps, mirror).w

(***************************************************************************)
(* sci-chem-titration.py                                                   *)
(***************************************************************************)
TitrationType == "chem-titration"

\* init_state = dict(nH2A=16, nHA=5, nA2=2, nOH=0, nH=3)
TitrationInitState == [nH2A |-> 16, nHA |-> 5, nA2 |-> 2, nOH |-> 0, nH |-> 3]

\* the default of --schedule, one character per element
TitrationSchedule == <<
    "B", "A", "A", "B", "A", "B", "B", "B", "A", "B", "B", "A", "A", "B", "B",
    "B", "B", "A", "B", "A", "B", "B", "B", "A", "B", "B", "A", "A", "A", "B" >>

\* the defaults of --schedule, --delta_base, --delta_acid
TitrationDefaultArgs == [schedule |-> TitrationSchedule, delta_base |-> 2, delta_acid |-> 2]

\* a slip: the first deprotonation takes all of the added base, whatever H2A holds
base_substeps_unclamped(S, delta_base) ==
    LET s0 == [S EXCEPT !.nOH = S.nOH + delta_base]
        z  == Min(s0.nH, s0.nOH)
        s1 == [s0 EXCEPT !.nH = s0.nH - z, !.nOH = s0.nOH - z]
        x1 == s1.nOH
        s2 == [s1 EXCEPT !.nH2A = s1.nH2A - x1, !.nHA = s1.nHA + x1, !.nOH = s1.nOH - x1]
        x2 == Min(s2.nHA, s2.nOH)
        s3 == [s2 EXCEPT !.nHA = s2.nHA - x2, !.nA2 = s2.nA2 + x2, !.nOH = s2.nOH - x2]
    IN  <<s0, s1, s2, s3>>

\* base_step: the ledger after the reagent add and after each of the three
\* sub-steps
base_substeps(S, delta_base) ==
    LET s0 == [S EXCEPT !.nOH = S.nOH + delta_base]
        z  == Min(s0.nH, s0.nOH)
        s1 == [s0 EXCEPT !.nH = s0.nH - z, !.nOH = s0.nOH - z]
        x1 == Min(s1.nH2A, s1.nOH)
        s2 == [s1 EXCEPT !.nH2A = s1.nH2A - x1, !.nHA = s1.nHA + x1, !.nOH = s1.nOH - x1]
        x2 == Min(s2.nHA, s2.nOH)
        s3 == [s2 EXCEPT !.nHA = s2.nHA - x2, !.nA2 = s2.nA2 + x2, !.nOH = s2.nOH - x2]
    IN  <<s0, s1, s2, s3>>

base_step(S, delta_base) == base_substeps(S, delta_base)[4]

\* a slip: the first protonation removes A2- without crediting HA-
acid_substeps_uncredited(S, delta_acid) ==
    LET s0 == [S EXCEPT !.nH = S.nH + delta_acid]
        z  == Min(s0.nH, s0.nOH)
        s1 == [s0 EXCEPT !.nH = s0.nH - z, !.nOH = s0.nOH - z]
        y1 == Min(s1.nA2, s1.nH)
        s2 == [s1 EXCEPT !.nA2 = s1.nA2 - y1, !.nH = s1.nH - y1]
        y2 == Min(s2.nHA, s2.nH)
        s3 == [s2 EXCEPT !.nHA = s2.nHA - y2, !.nH2A = s2.nH2A + y2, !.nH = s2.nH - y2]
    IN  <<s0, s1, s2, s3>>

\* acid_step: the ledger after the reagent add and after each of the three
\* sub-steps
acid_substeps(S, delta_acid) ==
    LET s0 == [S EXCEPT !.nH = S.nH + delta_acid]
        z  == Min(s0.nH, s0.nOH)
        s1 == [s0 EXCEPT !.nH = s0.nH - z, !.nOH = s0.nOH - z]
        y1 == Min(s1.nA2, s1.nH)
        s2 == [s1 EXCEPT !.nA2 = s1.nA2 - y1, !.nHA = s1.nHA + y1, !.nH = s1.nH - y1]
        y2 == Min(s2.nHA, s2.nH)
        s3 == [s2 EXCEPT !.nHA = s2.nHA - y2, !.nH2A = s2.nH2A + y2, !.nH = s2.nH - y2]
    IN  <<s0, s1, s2, s3>>

acid_step(S, delta_acid) == acid_substeps(S, delta_acid)[4]

classify_region(S) ==
    IF S.nH > 0 THEN "acid_excess"
    ELSE IF S.nOH > 0 /\ S.nH2A = 0 /\ S.nHA = 0 /\ S.nH = 0 THEN "base_excess"
    ELSE IF S.nH2A = 0 /\ S.nHA = 0 /\ S.nH = 0 /\ S.nOH = 0 THEN "at_eq2"
    ELSE IF S.nH2A = 0 /\ S.nH = 0 /\ S.nOH = 0 /\ S.nHA > 0
    THEN (IF S.nA2 = 0 THEN "at_eq1" ELSE "between_eq1_eq2")
    ELSE "pre_eq1"

\* ch = args.schedule[i] if i < len(args.schedule) else "B"
TitrationReagent(schedule, i_) == IF i_ < Len(schedule) THEN schedule[i_ + 1] ELSE "B"

\* ch.upper() == "A"
TitrationIsAcid(ch) == ch \in {"A", "a"}

\* schedule_prefix
TitrationPrefix(schedule, step) ==
    IF step <= Len(schedule) THEN SubSeq(schedule, 1, step)
    ELSE schedule \o [k \in 1..(step - Len(schedule)) |-> "B"]

\* the working copies, teq1 = teq2 = None (<<>>), and the parsed flags
TitrationSeedOf(args) ==
    [S |-> TitrationInitState, teq1 |-> <<>>, teq2 |-> <<>>, args |-> args]

TitrationSeed == TitrationSeedOf(TitrationDefaultArgs)

(***************************************************************************)
(* sci-bio-enzyme-cofactor.py                                              *)
(***************************************************************************)
CofactorType == "bio-enzyme-cofactor-queue"

\* the defaults of --A0, --B0, --C0, --k
CofactorDefaultArgs == [A0 |-> 12, B0 |-> 0, C0 |-> 3, k |-> 5]

\* a slip: the regeneration stage is missing
one_tick_no_regeneration(A, B, C, t, k) ==
    IF A > 0 /\ C > 0 THEN [A |-> A - 1, B |-> B + 1, C |-> C - 1]
    ELSE [A |-> A, B |-> B, C |-> C]

\* a slip: the reaction does not ask for a cofactor token
one_tick_unguarded(A, B, C, t, k) ==
    LET r == IF A > 0 THEN [A |-> A - 1, B |-> B + 1, C |-> C - 1]
             ELSE [A |-> A, B |-> B, C |-> C]
    IN  IF t % k = 0 THEN [r EXCEPT !.C = r.C + 1] ELSE r

\* one_tick: reaction first, regeneration after it
one_tick(A, B, C, t, k) ==
    LET r == IF A > 0 /\ C > 0 THEN [A |-> A - 1, B |-> B + 1, C |-> C - 1]
             ELSE [A |-> A, B |-> B, C |-> C]
    IN  IF t % k = 0 THEN [r EXCEPT !.C = r.C + 1] ELSE r

\* A, B, C = args.A0, args.B0, args.C0; k = args.k
CofactorSeedOf(args) == [A |-> args.A0, B |-> args.B0, C |-> args.C0, args |-> args]

CofactorSeed == CofactorSeedOf(CofactorDefaultArgs)

(***************************************************************************)
(* sci-geo-belt-functional-graph.py                                        *)
(***************************************************************************)
BeltType == "functional-graph-belt-walk"

BeltM == 16

BeltV0 == 1

\* next_map[1:] -- next_map[v] for v = 1..M (index 0 of the list is a dummy)
BeltNextMap == <<2, 3, 4, 5, 6, 7, 8, 9, 10, 11, 12, 5, 8, 3, 4, 5>>

\* update_belt_state: move, count the station if new, record the visit
\* (vis[v] is kept for v = 1..M; the dummy vis[0] is never touched)
update_belt_state(st, next_map) ==
    LET v == next_map[st.cur]
    IN  [cur      |-> v,
         vis      |-> [st.vis EXCEPT ![v] = st.vis[v] + 1],
         distinct |-> IF st.vis[v] = 0 THEN st.distinct + 1 ELSE st.distinct,
         M        |-> st.M]

\* state = {'cur': v0, 'vis': [0] * (M + 1), 'distinct': 0, 'M': M}
BeltSeed == [cur |-> BeltV0, vis |-> [v \in 1..BeltM |-> 0], distinct |-> 0, M |-> BeltM]

(***************************************************************************)
(* main(): the simulate-and-render loop and the final write                *)
(***************************************************************************)
Rule90Script == "code-3-top-rule90"

MomentumScript == "sci-phys-momentum-buckets"

ComplexScript == "math-complex_v1"

FsmScript == "sci-bio-enzyme-cascade-fsm"

CaScript == "math-cellular-automaton-v1"

RotflipScript == "math-boolean-rotflip-3x3"

TriRegScript == "math-tri-register-extreme-xor"

PointerScript == "lang-8-mirror-pointer-fixer"

TitrationScript == "sci-chem-titration"

CofactorScript == "sci-bio-enzyme-cofactor"

BeltScript == "sci-geo-belt-functional-graph"

CaesarScript == "code-2-top-rotating-caesar"

InventoryScript == "code-1-top-digit-inventory4"

DucciScript == "code-4-top-ducci-mod1000"

MatrixScript == "math-matrix-hard-v4"

MemoryWalkScript == "sci-phys-memory-walk"

MazeScript == "lang-letter-maze"

PickerScript == "lang-punct-letter-picker"

AffineScript == "code-5-top-affine2d"

ShiritoriScript == "lang-shiritori-walk-small-dict"

LipogramScript == "lang-10-rotating-lipogram-sieve"

TransposonScript == "sci-bio-transposon-hops"

ArraySwapScript == "math-array-odd-swap"

GraphScript == "math-weighted-graph"

LexicalScript == "lang-lexical-antonym-synonym-chain"

TorusScript == "code-9-top-torus-ant"

Scripts == {Rule90Script, CaesarScript, InventoryScript, DucciScript, MatrixScript,
            MemoryWalkScript, MazeScript, PickerScript, AffineScript,
            ShiritoriScript, LipogramScript, TransposonScript, ArraySwapScript,
            GraphScript, LexicalScript, TorusScript, MomentumScript,
            ComplexScript, FsmScript, CaScript, RotflipScript, TriRegScript,
            PointerScript, TitrationScript, CofactorScript, BeltScript}

\* scripts that open the output file without DATA_SAVE_DIR.mkdir(...)
NoMkdirScripts == {MatrixScript, ComplexScript, CaScript}

\* scripts that call DATA_SAVE_DIR.mkdir(...) before the loop
MkdirFirstScripts == {TransposonScript, MomentumScript, FsmScript, RotflipScript,
                      PointerScript, TitrationScript}

\* scripts that call DATA_SAVE_DIR.mkdir(...) once more after the loop
MkdirAgainScripts == {MomentumScript}

\* scripts whose main() asserts conditions on its arguments first
ArgCheckScripts == {MomentumScript}

\* scripts that open the output file before the loop and write inside it
StreamingScripts == {MemoryWalkScript}

\* `updated_state = None` before the loop, or no carried state at all
None == "None"

\* the working state each main() sets up before its loop
SeedState(sc) ==
    CASE sc = Rule90Script     -> None
      [] sc = CaesarScript     -> CaesarSeed
      [] sc = InventoryScript  -> None
      [] sc = DucciScript      -> None
      [] sc = MatrixScript     -> None
      [] sc = MemoryWalkScript -> MemoryWalkSeed
      [] sc = MazeScript       -> None
      [] sc = PickerScript     -> None
      [] sc = AffineScript     -> None
      [] sc = ShiritoriScript  -> ShiritoriW0
      [] sc = LipogramScript   -> LipogramP0
      [] sc = TransposonScript -> TransposonSeed
      [] sc = ArraySwapScript  -> ArraySwapSeed
      [] sc = GraphScript      -> GraphSeed
      [] sc = LexicalScript    -> LexicalSeed(LexicalStartWord)
      [] sc = TorusScript      -> TorusSeed
      [] sc = MomentumScript   -> MomentumSeed
      [] sc = ComplexScript    -> None
      [] sc = FsmScript        -> FsmSeed
      [] sc = CaScript         -> None
      [] sc = RotflipScript    -> RotflipSeed
      [] sc = TriRegScript     -> None
      [] sc = PointerScript    -> None
      [] sc = TitrationScript  -> TitrationSeed
      [] sc = CofactorScript   -> CofactorSeed
      [] sc = BeltScript       -> BeltSeed

\* the first statement of main() after the set-up of the locals
FirstPc(sc) ==
    IF sc \in ArgCheckScripts THEN "args"
    ELSE IF sc \in StreamingScripts \cup MkdirFirstScripts THEN "mkdir"
    ELSE "loop"

\* the output file before the run: absent, or left by an earlier run
NoFile == [exists |-> FALSE, content |-> <<>>]

OldFile == [exists |-> TRUE, content |-> <<"old">>]

Init ==
    /\ run = 1
    /\ script \in Scripts
    /\ num_step \in 0..MaxStep
    /\ i = 0
    /\ state = SeedState(script)
    /\ dataset = <<>>
    /\ dirExists \in BOOLEAN
    /\ file \in (IF dirExists THEN {NoFile, OldFile} ELSE {NoFile})
    /\ fh = "unopened"
    /\ pc = FirstPc(script)
    /\ fnArg = <<>>
    /\ fnOut = NotCalled

\* one loop iteration of a script that appends to `dataset`: the new carried
\* state and the record of this step
Iteration(sc, newState, rec) ==
    /\ script = sc
    /\ pc = "loop"
    /\ i < num_step
    /\ state' = newState
    /\ dataset' = Append(dataset, rec)
    /\ i' = i + 1
    /\ UNCHANGED <<run, script, pc, num_step, dirExists, file, fh, fnArg, fnOut>>

\* a slip: the state is rebuilt from the seed on every even iteration
Rule90Step_restart ==
    LET step    == i + 1
        updated == IF i % 2 = 0 THEN update_rule90(Rule90Seed) ELSE update_rule90(state)
    IN  Iteration(Rule90Script, updated,
                  [idx |-> step, type |-> Rule90Type,
                   task |-> [N |-> step, b |-> Rule90Seed], gt_ans |-> updated])

Rule90Step ==
    LET step    == i + 1
        updated == IF i = 0 THEN update_rule90(Rule90Seed) ELSE update_rule90(state)
    IN  Iteration(Rule90Script, updated,
                  [idx |-> step, type |-> Rule90Type,
                   task |-> [N |-> step, b |-> Rule90Seed], gt_ans |-> updated])

CaesarStep ==
    LET step    == i + 1
        updated == update_rotating_caesar(state)
    IN  Iteration(CaesarScript, updated,
                  [idx |-> step, type |-> CaesarType,
                   task |-> [N |-> step, s |-> CaesarSeed[1], t |-> CaesarSeed[2]],
                   gt_ans |-> updated[1]])

InventoryStep ==
    LET step    == i + 1
        updated == IF i = 0 THEN update_inventory(InventorySeed, i)
                   ELSE update_inventory(state, i)
    IN  Iteration(InventoryScript, updated,
                  [idx |-> step, type |-> InventoryType,
                   task |-> [N |-> step, s |-> InventorySeed], gt_ans |-> updated])

DucciStep ==
    LET step    == i + 1
        updated == IF i = 0 THEN update_ducci(DucciSeed) ELSE update_ducci(state)
    IN  Iteration(DucciScript, updated,
                  [idx |-> step, type |-> DucciType,
                   task |-> [N |-> step, x |-> DucciSeed], gt_ans |-> JoinStr(updated)])

MatrixStep ==
    LET step    == i + 1
        updated == IF i = 0 THEN update_matrix(MatrixSeed, MatrixMod)
                   ELSE update_matrix(state, MatrixMod)
    IN  Iteration(MatrixScript, updated,
                  [idx |-> step, type |-> MatrixType,
                   task |-> [n |-> step, M0 |-> MatrixSeed, mod_num |-> MatrixMod],
                   gt_ans_latex |-> updated, gt_ans |-> MatSum(updated)])

ComplexStep ==
    LET step    == i + 1
        updated == IF i = 0 THEN update_complex(ComplexSeed, ComplexMod)
                   ELSE update_complex(state, ComplexMod)
    IN  Iteration(ComplexScript, updated,
                  [idx |-> step, type |-> ComplexType,
                   task |-> [n |-> step, c0 |-> ComplexSeed, mod_num |-> ComplexMod],
                   gt_ans |-> updated[1] + updated[2]])

\* state, cnt = update_fsm(state, cnt, T, u, Etar, step)
FsmStep ==
    LET step == i + 1
        res  == update_fsm(state.state, state.cnt, FsmT, FsmU, FsmEtar, step)
    IN  Iteration(FsmScript, res,
                  [idx |-> step, type |-> FsmType,
                   task |-> [n |-> step, L |-> Len(FsmU), u |-> FsmU,
                             T_table_md |-> FsmTableLines, s0 |-> "E0",
                             Etar |-> FsmEtar],
                   gt_ans |-> res.cnt])

CaStep ==
    LET step    == i + 1
        updated == IF i = 0 THEN ca_update_complex(CaSeed)
                   ELSE ca_update_complex(state)
    IN  Iteration(CaScript, updated,
                  [idx |-> step, type |-> CaType,
                   task |-> [n |-> step, s0 |-> CaSeed, L |-> Len(CaSeed)],
                   gt_ans |-> CaBigEndian(updated)])

\* board, ones = step_update(board); score_mod = (score_mod + ones) % mod_num
RotflipStep ==
    LET step      == i + 1
        res       == step_update(state.board)
        score_mod == (state.score_mod + res.ones) % RotflipModNum
    IN  Iteration(RotflipScript, [board |-> res.board, score_mod |-> score_mod],
                  [idx |-> step, type |-> RotflipType,
                   task |-> [n |-> step, init_rows |-> RotflipInitBoard,
                             mod_num |-> RotflipModNum],
                   gt_ans |-> score_mod])

TriRegStep ==
    LET step    == i + 1
        updated == IF i = 0 THEN update_registers(TriRegInit, TriRegP, step)
                   ELSE update_registers(state, TriRegP, step)
    IN  Iteration(TriRegScript, updated,
                  [idx |-> step, type |-> TriRegType,
                   task |-> [n |-> step, init |-> TriRegInit, p |-> TriRegP,
                             M |-> TriRegModNum],
                   gt_ans |-> (updated[1] + updated[2] + updated[3]) % TriRegModNum])

\* update_belt_state(state, next_map); gt_ans = int(state['distinct'])
BeltStep ==
    LET step == i + 1
        st   == update_belt_state(state, BeltNextMap)
    IN  Iteration(BeltScript, st,
                  [idx |-> step, type |-> BeltType,
                   task |-> [n |-> step, M |-> BeltM, v0 |-> BeltV0, next |-> BeltNextMap],
                   gt_ans |-> st.distinct])

\* A, B, C = one_tick(A, B, C, t=t, k=k); gt_ans = int(B)
CofactorStep ==
    LET t    == i + 1
        args == state.args
        r    == one_tick(state.A, state.B, state.C, t, args.k)
    IN  Iteration(CofactorScript,
                  [A |-> r.A, B |-> r.B, C |-> r.C, args |-> args],
                  [idx |-> t, type |-> CofactorType,
                   task |-> [n |-> t, A0 |-> args.A0, B0 |-> args.B0, C0 |-> args.C0,
                             k |-> args.k],
                   gt_ans |-> r.B])

\* one reagent step, the equivalence bookkeeping and the record of the ledger
TitrationStep ==
    LET step   == i + 1
        args   == state.args
        S      == IF TitrationIsAcid(TitrationReagent(args.schedule, i))
                  THEN acid_step(state.S, args.delta_acid)
                  ELSE base_step(state.S, args.delta_base)
        region == classify_region(S)
        teq1   == IF state.teq1 = <<>> /\ region = "at_eq1" THEN <<step>> ELSE state.teq1
        teq2   == IF state.teq2 = <<>> /\ region = "at_eq2" THEN <<step>> ELSE state.teq2
    IN  Iteration(TitrationScript,
                  [S |-> S, teq1 |-> teq1, teq2 |-> teq2, args |-> args],
                  [idx |-> step, type |-> TitrationType,
                   task |-> [n |-> step, S0 |-> TitrationInitState,
                             schedule_prefix |-> TitrationPrefix(args.schedule, step),
                             delta_base |-> args.delta_base,
                             delta_acid |-> args.delta_acid],
                   gt_ans |-> S.nHA])

\* final_word = run_pointer_machine(init_word, step, mirror_map)
PointerStep ==
    LET step == i + 1
    IN  Iteration(PointerScript, state,
                  [idx |-> step, type |-> PointerType,
                   task |-> [n |-> step, w0 |-> PointerInitWord, pairs |-> MirrorPairs],
                   gt_ans |-> run_pointer_machine(PointerInitWord, step, MirrorMap)])

MazeStep ==
    LET step == i + 1
    IN  Iteration(MazeScript, state,
                  [idx |-> step, type |-> MazeType,
                   task |-> [n |-> step, grid |-> GRID, r0 |-> R0, c0 |-> C0, k |-> MazeK],
                   gt_ans |-> simulate_last_k(step, MazeK)])

PickerStep ==
    LET step == i + 1
        N    == i + 1
    IN  Iteration(PickerScript, state,
                  [idx |-> step, type |-> PickerType,
                   task |-> [T |-> TEXT, i0 |-> PickerI0, N |-> N, k |-> PickerK,
                             mod_num |-> PickerModNum],
                   gt_ans |-> run_picker(TEXT, PickerI0, N, PickerModNum, PickerK, JUMP_MAP)])

AffineStep ==
    LET step    == i + 1
        updated == IF i = 0 THEN update_affine2d(AffineSeed) ELSE update_affine2d(state)
    IN  Iteration(AffineScript, updated,
                  [idx |-> step, type |-> AffineType,
                   task |-> [N |-> step, init_state |-> AffineSeed],
                   gt_ans |-> AffineGtStr(updated)])

ShiritoriStep ==
    LET step         == i + 1
        current_word == shiritori_step(state, ShiritoriD)
    IN  Iteration(ShiritoriScript, current_word,
                  [idx |-> step, type |-> ShiritoriType,
                   task |-> [n |-> step, D |-> ShiritoriD, w0 |-> ShiritoriW0],
                   gt_ans |-> current_word])

\* the carried state is `cursor`
LipogramStep ==
    LET step   == i + 1
        banned == LipogramB[(i % Len(LipogramB)) + 1]
        res    == find_next_word(LipogramW, banned, state)
    IN  Iteration(LipogramScript,
                  IF res.found THEN res.next_cursor ELSE state,
                  [idx |-> step, type |-> LipogramType,
                   task |-> [N |-> step, W |-> LipogramW, B |-> LipogramB, p0 |-> LipogramP0],
                   gt_ans |-> IF res.found THEN res.word ELSE NoValidWord])

\* d, i = update_once(d, i, step, hop_table): the list d refers to is changed
\* in place; the task text renders the list d0 refers to after the update
TransposonStep ==
    LET step == i + 1
        res  == update_once(state.heap[state.d], state.i, step, TransposonHopTable)
        heap == [state.heap EXCEPT ![state.d] = res.d]
    IN  Iteration(TransposonScript,
                  [state EXCEPT !.heap = heap, !.i = res.i],
                  [idx |-> step, type |-> TransposonType,
                   task |-> [N |-> step, L |-> Len(TransposonD0), d0 |-> heap[state.d0],
                             i0 |-> TransposonI0, hop_table |-> TransposonHopTable],
                   gt_ans |-> binary_halves_sum(heap[state.d])])

\* A, step_contrib = update_array_one_step(A, m, step): the array A refers to
\* is changed in place; the task text renders init_A.tolist() after the update
ArraySwapStep ==
    LET step      == i + 1
        res       == update_array_one_step(state.heap[state.A], ArraySwapM, step)
        heap      == [state.heap EXCEPT ![state.A] = res.A]
        score_mod == (state.score_mod + res.val) % ArraySwapModNum
    IN  Iteration(ArraySwapScript,
                  [state EXCEPT !.heap = heap, !.score_mod = score_mod],
                  [idx |-> step, type |-> ArraySwapType,
                   task |-> [K |-> Len(heap[state.init_A]), m |-> ArraySwapM, n |-> step,
                             mod_num |-> ArraySwapModNum, init_A |-> heap[state.init_A]],
                   gt_ans |-> score_mod])

\* u, add = step_once(u, W, edges): the dict W refers to is changed in place;
\* the task text renders init_W after the update
GraphStep ==
    LET step  == i + 1
        res   == graph_step_once(state.u, state.heap[state.W], GraphEdges)
        heap  == [state.heap EXCEPT ![state.W] = res.W]
        score == state.score + res.add
    IN  Iteration(GraphScript,
                  [state EXCEPT !.heap = heap, !.u = res.next, !.score = score],
                  [idx |-> step, type |-> GraphType,
                   task |-> [n |-> step, mod_num |-> GraphModNum, v0 |-> GraphV0,
                             edges |-> GraphEdges, init_W |-> heap[state.init_W]],
                   gt_ans |-> score % GraphModNum])

\* the assert statements after parse_args(): a failed one ends the run
MomentumArgs ==
    /\ script \in ArgCheckScripts
    /\ pc = "args"
    /\ pc' = IF MomentumArgsOk(num_step, state.args) THEN "mkdir" ELSE "crashed"
    /\ UNCHANGED <<run, script, num_step, i, state, dataset, dirExists, file, fh, fnArg, fnOut>>

\* p0, p1, p2, f, g, c, branch = step_once_hard(..., step)
MomentumStep ==
    LET step == i + 1
        args == state.args
        res  == step_once_hard(state, args.tau_low, args.tau_high,
                               args.recycle_period, args.debt_threshold, step)
        st   == [p0 |-> res.p0, p1 |-> res.p1, p2 |-> res.p2,
                 f |-> res.f, g |-> res.g, c |-> res.c,
                 label |-> [branch |-> res.branch, settled |-> res.settled,
                            recycled |-> res.recycled],
                 args |-> args]
    IN  Iteration(MomentumScript, st,
                  [idx |-> step, type |-> MomentumType,
                   task |-> [n |-> step, M |-> args.M, start |-> args.start,
                             tau_low |-> args.tau_low, tau_high |-> args.tau_high,
                             recycle_period |-> args.recycle_period,
                             debt_threshold |-> args.debt_threshold,
                             weights |-> args.weights],
                   gt_ans |-> MomentumGt(st, args)])

\* current_word = update_word(current_word); an exception raised by
\* update_word ends the run
LexicalStep ==
    /\ script = LexicalScript
    /\ pc = "loop"
    /\ i < num_step
    /\ LET step == i + 1
           res  == update_word(state.current_word)
       IN  IF res.exc = "none"
           THEN /\ state' = [state EXCEPT !.current_word = res.word]
                /\ dataset' = Append(dataset,
                                     [idx |-> step, type |-> LexicalType,
                                      task |-> [w0 |-> state.init_word, n |-> step,
                                                PAIRS |-> PAIRS_LIST, SYN |-> SYN_MAP,
                                                ODD |-> ODD_LETTERS],
                                      gt_ans |-> res.word])
                /\ i' = i + 1
                /\ pc' = pc
           ELSE /\ pc' = "crashed"
                /\ UNCHANGED <<state, dataset, i>>
    /\ UNCHANGED <<run, script, num_step, dirExists, file, fh, fnArg, fnOut>>

\* updated_state = update_torus_ant(...): the call reads the list state.grid
\* refers to and returns a list of its own; the task text renders init_grid
TorusStep ==
    LET step == i + 1
        arg  == state.grid
        out  == IF arg = TorusObjA THEN TorusObjB ELSE TorusObjA
        res  == update_torus_ant(state.heap[arg], state.r, state.c, state.d)
        heap == [state.heap EXCEPT ![arg] = res.arg, ![out] = res.ng]
    IN  Iteration(TorusScript,
                  [heap |-> heap, grid |-> out, r |-> res.r, c |-> res.c, d |-> res.d],
                  [idx |-> step, type |-> TorusType,
                   task |-> [N |-> step, grid |-> heap[SeedObj], r |-> TorusInitR,
                             c |-> TorusInitC, d |-> TorusInitD],
                   gt_ans |-> TorusAnswer(res.r, res.c, res.d, TorusOnes(res.ng))])

\* sci-phys-memory-walk.py writes each record inside the loop, into the file it
\* opened before the loop; it keeps no `dataset`
MemoryWalkStep ==
    /\ script = MemoryWalkScript
    /\ pc = "loop"
    /\ i < num_step
    /\ LET step    == i + 1
           updated == step_once(state)
           rec     == [idx |-> step, type |-> MemoryWalkType,
                       task |-> [n |-> step, F0 |-> MemoryWalkF0, x0 |-> MemoryWalkSeed.x,
                                 dir0 |-> MemoryWalkSeed.dir],
                       gt_ans |-> updated.x]
       IN  /\ state' = updated
           /\ file' = [file EXCEPT !.content = Append(@, rec)]
    /\ i' = i + 1
    /\ UNCHANGED <<run, script, pc, num_step, dataset, dirExists, fh, fnArg, fnOut>>

\* the loop is exhausted
LoopExit ==
    /\ pc = "loop"
    /\ i >= num_step
    /\ IF script \in StreamingScripts
       THEN /\ fh' = "closed"
            /\ pc' = "done"
       ELSE /\ fh' = fh
            /\ pc' = IF script \in MkdirAgainScripts THEN "mkdir_again"
                     ELSE IF script \in NoMkdirScripts \cup MkdirFirstScripts THEN "open"
                     ELSE "mkdir"
    /\ UNCHANGED <<run, script, num_step, i, state, dataset, dirExists, file, fnArg, fnOut>>

\* DATA_SAVE_DIR.mkdir(parents=True, exist_ok=True)
Mkdir ==
    /\ pc \in {"mkdir", "mkdir_again"}
    /\ dirExists' = TRUE
    /\ pc' = IF pc = "mkdir" /\ script \in MkdirFirstScripts THEN "loop" ELSE "open"
    /\ UNCHANGED <<run, script, num_step, i, state, dataset, file, fh, fnArg, fnOut>>

\* a slip: the file is opened with mode "a", what it held is kept
Open_append ==
    /\ pc = "open"
    /\ IF dirExists
       THEN /\ file' = [exists |-> TRUE, content |-> file.content]
            /\ fh' = "open"
            /\ pc' = IF script \in StreamingScripts THEN "loop" ELSE "write"
       ELSE /\ pc' = "crashed"
            /\ UNCHANGED <<file, fh>>
    /\ UNCHANGED <<run, script, num_step, i, state, dataset, dirExists, fnArg, fnOut>>

\* open(DATA_SAVE_DIR / args.out_path, "w"): FileNotFoundError when the
\* directory is missing, otherwise the file is created or truncated
Open ==
    /\ pc = "open"
    /\ IF dirExists
       THEN /\ file' = [exists |-> TRUE, content |-> <<>>]
            /\ fh' = "open"
            /\ pc' = IF script \in StreamingScripts THEN "loop" ELSE "write"
       ELSE /\ pc' = "crashed"
            /\ UNCHANGED <<file, fh>>
    /\ UNCHANGED <<run, script, num_step, i, state, dataset, dirExists, fnArg, fnOut>>

\* for rec in dataset: f.write(json.dumps(rec) + "\n"), then the file is closed
Write ==
    /\ pc = "write"
    /\ file' = [file EXCEPT !.content = @ \o dataset]
    /\ fh' = "closed"
    /\ pc' = "done"
    /\ UNCHANGED <<run, script, num_step, i, state, dataset, dirExists, fnArg, fnOut>>

Next ==
    \/ Rule90Step
    \/ CaesarStep
    \/ InventoryStep
    \/ DucciStep
    \/ MatrixStep
    \/ MazeStep
    \/ PickerStep
    \/ AffineStep
    \/ ShiritoriStep
    \/ LipogramStep
    \/ TransposonStep
    \/ ArraySwapStep
    \/ GraphStep
    \/ LexicalStep
    \/ TorusStep
    \/ MomentumArgs
    \/ MomentumStep
    \/ ComplexStep
    \/ FsmStep
    \/ CaStep
    \/ RotflipStep
    \/ TriRegStep
    \/ PointerStep
    \/ TitrationStep
    \/ CofactorStep
    \/ BeltStep
    \/ MemoryWalkStep
    \/ LoopExit
    \/ Mkdir
    \/ Open
    \/ Write

Spec == Init /\ [][Next]_vars

(***************************************************************************)
(* the same script invoked again with the same arguments                   *)
(***************************************************************************)
\* a slip: the second invocation goes on from the working state of the first
Rerun_keeps_state ==
    /\ pc = "done"
    /\ run < MaxRuns
    /\ run' = run + 1
    /\ i' = 0
    /\ state' = state
    /\ dataset' = <<>>
    /\ fh' = "unopened"
    /\ pc' = FirstPc(script)
    /\ UNCHANGED <<script, num_step, dirExists, file, fnArg, fnOut>>

\* a new process runs main() from its first line: every local is set up
\* afresh, only the disk is as the previous invocation left it
Rerun ==
    /\ pc = "done"
    /\ run < MaxRuns
    /\ run' = run + 1
    /\ i' = 0
    /\ state' = SeedState(script)
    /\ dataset' = <<>>
    /\ fh' = "unopened"
    /\ pc' = FirstPc(script)
    /\ UNCHANGED <<script, num_step, dirExists, file, fnArg, fnOut>>

NextRerun ==
    \/ Next
    \/ Rerun

SpecRerun == Init /\ [][NextRerun]_vars

(***************************************************************************)
(* update_rule90 on arbitrary binary strings                               *)
(***************************************************************************)
RECURSIVE BinaryStrings(_)
BinaryStrings(n) ==
    IF n = 0 THEN {<<>>}
    ELSE {Append(b, c) : b \in BinaryStrings(n - 1), c \in {"0", "1"}}

Rule90Inputs == {Rule90Seed} \cup UNION {BinaryStrings(n) : n \in 1..MaxLen}

InitRule90 ==
    /\ fnArg \in Rule90Inputs
    /\ fnOut = NotCalled
    /\ run = 1
    /\ script = None
    /\ pc = "done"
    /\ num_step = 0
    /\ i = 0
    /\ state = None
    /\ dataset = <<>>
    /\ dirExists = TRUE
    /\ file = NoFile
    /\ fh = "unopened"

\* updated_state = update_rule90(b)
Rule90Call ==
    /\ ~fnOut.called
    /\ fnOut' = [called |-> TRUE, value |-> update_rule90(fnArg)]
    /\ UNCHANGED <<fnArg, run, script, pc, num_step, i, state, dataset, dirExists, file, fh>>

\* the next iteration feeds the result back to the rule
Rule90Feed ==
    /\ fnOut.called
    /\ fnArg' = fnOut.value
    /\ fnOut' = NotCalled
    /\ UNCHANGED <<run, script, pc, num_step, i, state, dataset, dirExists, file, fh>>

NextRule90 ==
    \/ Rule90Call
    \/ Rule90Feed

SpecRule90 == InitRule90 /\ [][NextRule90]_vars

(***************************************************************************)
(* code-5-top-affine2d.py run for more than 200 steps                      *)
(***************************************************************************)
InitAffine ==
    /\ run = 1
    /\ script = AffineScript
    /\ num_step \in (MaxAffineStep - 1)..MaxAffineStep
    /\ i = 0
    /\ state = SeedState(script)
    /\ dataset = <<>>
    /\ dirExists \in BOOLEAN
    /\ file \in (IF dirExists THEN {NoFile, OldFile} ELSE {NoFile})
    /\ fh = "unopened"
    /\ pc = "loop"
    /\ fnArg = <<>>
    /\ fnOut = NotCalled

NextAffine ==
    \/ AffineStep
    \/ LoopExit
    \/ Mkdir
    \/ Open
    \/ Write

SpecAffine == InitAffine /\ [][NextAffine]_vars

(***************************************************************************)
(* math-cellular-automaton-v1.py, and its update_complex called on         *)
(* arbitrary bit arrays beside the run                                     *)
(***************************************************************************)
RECURSIVE BitArrays(_)
BitArrays(n) ==
    IF n = 0 THEN {<<>>}
    ELSE {Append(b, c) : b \in BitArrays(n - 1), c \in {0, 1}}

CaInputs == {CaSeed} \cup UNION {BitArrays(n) : n \in 1..MaxLen}

InitCellular ==
    /\ run = 1
    /\ script = CaScript
    /\ num_step \in {MaxStep}
    /\ i = 0
    /\ state = SeedState(script)
    /\ dataset = <<>>
    /\ dirExists = TRUE
    /\ file = NoFile
    /\ fh = "unopened"
    /\ pc = FirstPc(script)
    /\ fnArg \in CaInputs
    /\ fnOut = NotCalled

\* update_bi_string = update_complex(b)
CaCall ==
    /\ ~fnOut.called
    /\ fnOut' = [called |-> TRUE, value |-> ca_update_complex(fnArg)]
    /\ UNCHANGED <<fnArg, run, script, pc, num_step, i, state, dataset, dirExists, file, fh>>

NextCellular ==
    \/ CaStep
    \/ CaCall
    \/ LoopExit
    \/ Open
    \/ Write

SpecCellular == InitCellular /\ [][NextCellular]_vars

(***************************************************************************)
(* run_pointer_machine pass by pass, on the seed word and on short words   *)
(***************************************************************************)
\* letters of the short words: a self-mirroring one, both members of a pair,
\* one member of the other pair, and one the mirror map does not hold
PointerLetters == {"a", "b", "d", "p", "k"}

RECURSIVE PointerWords(_)
PointerWords(n) ==
    IF n = 0 THEN {<<>>}
    ELSE {Append(w, c) : w \in PointerWords(n - 1), c \in PointerLetters}

PointerInputs == {PointerInitWord} \cup UNION {PointerWords(n) : n \in 1..MaxWordLen}

InitPointer ==
    /\ fnArg \in PointerInputs
    /\ fnOut = NotCalled
    /\ run = 1
    /\ script = None
    /\ pc = "done"
    /\ num_step = MaxStep
    /\ i = 0
    /\ state = None
    /\ dataset = <<>>
    /\ dirExists = TRUE
    /\ file = NoFile
    /\ fh = "unopened"

\* w = list(w0); m = len(w); L = 0; R = m - 1   (k counts the passes made)
PointerEnter ==
    /\ ~fnOut.called
    /\ fnOut' = [called |-> TRUE,
                 value  |-> [w |-> PointerStart(fnArg).w, L |-> PointerStart(fnArg).L,
                             R |-> PointerStart(fnArg).R, k |-> 0]]
    /\ UNCHANGED <<fnArg, run, script, pc, num_step, i, state, dataset, dirExists, file, fh>>

\* one pass of `for _ in range(steps)` with steps = num_step
PointerPass ==
    /\ fnOut.called
    /\ fnOut.value.k < num_step
    /\ LET ms == pointer_step([w |-> fnOut.value.w, L |-> fnOut.value.L,
                               R |-> fnOut.value.R], MirrorMap)
       IN  fnOut' = [called |-> TRUE,
                     value  |-> [w |-> ms.w, L |-> ms.L, R |-> ms.R,
                                 k |-> fnOut.value.k + 1]]
    /\ UNCHANGED <<fnArg, run, script, pc, num_step, i, state, dataset, dirExists, file, fh>>

NextPointer ==
    \/ PointerEnter
    \/ PointerPass

SpecPointer == InitPointer /\ [][NextPointer]_vars

(***************************************************************************)
(* sci-chem-titration.py run with flags: any short schedule over {A, B}    *)
(* and any non-negative reagent amounts up to MaxDelta                     *)
(***************************************************************************)
RECURSIVE TitrationSchedules(_)
TitrationSchedules(n) ==
    IF n = 0 THEN {<<>>}
    ELSE {Append(s, c) : s \in TitrationSchedules(n - 1), c \in {"A", "B"}}

TitrationArgSets ==
    {[schedule |-> s, delta_base |-> db, delta_acid |-> da] :
        s \in UNION {TitrationSchedules(n) : n \in 0..MaxScheduleLen},
        db \in 0..MaxDelta, da \in 0..MaxDelta}

InitTitration ==
    /\ run = 1
    /\ script = TitrationScript
    /\ num_step \in {MaxScheduleLen + 1}
    /\ i = 0
    /\ \E args \in TitrationArgSets : state = TitrationSeedOf(args)
    /\ dataset = <<>>
    /\ dirExists = TRUE
    /\ file = NoFile
    /\ fh = "unopened"
    /\ pc = FirstPc(script)
    /\ fnArg = <<>>
    /\ fnOut = NotCalled

NextTitration ==
    \/ TitrationStep
    \/ LoopExit
    \/ Mkdir
    \/ Open
    \/ Write

SpecTitration == InitTitration /\ [][NextTitration]_vars

(***************************************************************************)
(* sci-bio-enzyme-cofactor.py run with flags: any start counts up to       *)
(* MaxCount and any period 1..MaxPeriod, for more ticks than the substrate *)
(* can last                                                                *)
(***************************************************************************)
CofactorArgSets ==
    {[A0 |-> a, B0 |-> b, C0 |-> c, k |-> k] :
        a \in 0..MaxCount, b \in 0..MaxCount, c \in 0..MaxCount, k \in 1..MaxPeriod}

\* --num_step of these runs
CofactorNumStep == MaxCount * MaxPeriod + 2

InitCofactor ==
    /\ run = 1
    /\ script = CofactorScript
    /\ num_step = CofactorNumStep
    /\ i = 0
    /\ \E args \in CofactorArgSets : state = CofactorSeedOf(args)
    /\ dataset = <<>>
    /\ dirExists = TRUE
    /\ file = NoFile
    /\ fh = "unopened"
    /\ pc = FirstPc(script)
    /\ fnArg = <<>>
    /\ fnOut = NotCalled

NextCofactor ==
    \/ CofactorStep
    \/ LoopExit
    \/ Mkdir
    \/ Open
    \/ Write

SpecCofactor == InitCofactor /\ [][NextCofactor]_vars

(***************************************************************************)
(* lang-10-rotating-lipogram-sieve.py run until cursor and banned set      *)
(* repeat                                                                  *)
(***************************************************************************)
InitLipogram ==
    /\ run = 1
    /\ script = LipogramScript
    /\ num_step \in (MaxLipogramStep - 1)..MaxLipogramStep
    /\ i = 0
    /\ state = SeedState(script)
    /\ dataset = <<>>
    /\ dirExists \in BOOLEAN
    /\ file = NoFile
    /\ fh = "unopened"
    /\ pc = FirstPc(script)
    /\ fnArg = <<>>
    /\ fnOut = NotCalled

NextLipogram ==
    \/ LipogramStep
    \/ LoopExit
    \/ Mkdir
    \/ Open
    \/ Write

SpecLipogram == InitLipogram /\ [][NextLipogram]_vars

(***************************************************************************)
(* math-tri-register-extreme-xor.py run until its orbit has closed         *)
(***************************************************************************)
InitTriReg ==
    /\ run = 1
    /\ script = TriRegScript
    /\ num_step \in (MaxTriRegStep - 1)..MaxTriRegStep
    /\ i = 0
    /\ state = SeedState(script)
    /\ dataset = <<>>
    /\ dirExists \in BOOLEAN
    /\ file = NoFile
    /\ fh = "unopened"
    /\ pc = FirstPc(script)
    /\ fnArg = <<>>
    /\ fnOut = NotCalled

NextTriReg ==
    \/ TriRegStep
    \/ LoopExit
    \/ Mkdir
    \/ Open
    \/ Write

SpecTriReg == InitTriReg /\ [][NextTriReg]_vars

(***************************************************************************)
(* sci-phys-momentum-buckets.py run with flags: any start state and debt   *)
(* threshold the assertions accept, low thresholds, short recycle periods  *)
(***************************************************************************)
MomentumArgSets ==
    {[M |-> MomentumM, tau_low |-> tl, tau_high |-> 2,
      recycle_period |-> rp, debt_threshold |-> k,
      start |-> [p0 |-> a, p1 |-> b, p2 |-> c, f |-> f0, g |-> g0, c |-> c0],
      weights |-> MomentumWeights] :
        tl \in 1..2, rp \in {2, MomentumRecyclePeriod}, k \in 1..MaxThreshold,
        a \in 0..MaxBucket, b \in 0..MaxBucket, c \in 0..MaxBucket,
        f0 \in {0, 1}, g0 \in {0, 1}, c0 \in 0..MaxDebt}

InitMomentum ==
    /\ run = 1
    /\ script = MomentumScript
    /\ num_step \in {MaxMomentumStep}
    /\ i = 0
    /\ \E args \in MomentumArgSets : state = MomentumSeedOf(args)
    /\ dataset = <<>>
    /\ dirExists \in BOOLEAN
    /\ file = NoFile
    /\ fh = "unopened"
    /\ pc = FirstPc(script)
    /\ fnArg = <<>>
    /\ fnOut = NotCalled

NextMomentum ==
    \/ MomentumArgs
    \/ MomentumStep
    \/ LoopExit
    \/ Mkdir
    \/ Open
    \/ Write

SpecMomentum == InitMomentum /\ [][NextMomentum]_vars

(***************************************************************************)
(* lang-lexical-antonym-synonym-chain.py started from any word of its      *)
(* tables (--start_word)                                                   *)
(***************************************************************************)
LexicalWords == DOMAIN PAIRS_MAP \cup DOMAIN SYN_MAP

InitLexical ==
    /\ run = 1
    /\ script = LexicalScript
    /\ num_step \in {MaxStep}
    /\ i = 0
    /\ \E start_word \in LexicalWords : state = LexicalSeed(start_word)
    /\ dataset = <<>>
    /\ dirExists = TRUE
    /\ file = NoFile
    /\ fh = "unopened"
    /\ pc = FirstPc(script)
    /\ fnArg = <<>>
    /\ fnOut = NotCalled

NextLexical ==
    \/ LexicalStep
    \/ LoopExit
    \/ Mkdir
    \/ Open
    \/ Write

SpecLexical == InitLexical /\ [][NextLexical]_vars

(***************************************************************************)
(* Claims                                                                  *)
(***************************************************************************)

\* <<f(x), f(f(x)), ...>>: the states after 1..n applications, as a table
RECURSIVE Rule90OrbitTo(_)
Rule90OrbitTo(n) ==
    IF n = 0 THEN <<>>
    ELSE LET prev == Rule90OrbitTo(n - 1)
         IN  Append(prev, update_rule90(IF n = 1 THEN Rule90Seed ELSE prev[n - 1]))

RECURSIVE CaesarOrbitTo(_)
CaesarOrbitTo(n) ==
    IF n = 0 THEN <<>>
    ELSE LET prev == CaesarOrbitTo(n - 1)
         IN  Append(prev, update_rotating_caesar(IF n = 1 THEN CaesarSeed ELSE prev[n - 1]))

Rule90Orbit == Rule90OrbitTo(MaxStep)

CaesarOrbit == CaesarOrbitTo(MaxStep)

\* the record of step j as a function of j alone
Rule90Record(j) ==
    [idx |-> j, type |-> Rule90Type, task |-> [N |-> j, b |-> Rule90Seed],
     gt_ans |-> Rule90Orbit[j]]

CaesarRecord(j) ==
    [idx |-> j, type |-> CaesarType,
     task |-> [N |-> j, s |-> CaesarSeed[1], t |-> CaesarSeed[2]],
     gt_ans |-> CaesarOrbit[j][1]]

C2_DirCreatedBeforeOpen ==
    /\ pc = "open" => dirExists
    /\ pc # "crashed"
    /\ pc = "done" => file.exists

\* C3: the output file is opened and written only after the whole loop has
\* completed: while iterations remain the run has not opened, created,
\* truncated or written the file.
C3_FileUntouchedUntilLoopEnds ==
    (pc = "loop" \/ i < num_step) =>
        /\ fh = "unopened"
        /\ file \in {NoFile, OldFile}

\* C4: executing the program embedded in the task text of every
\* digit-inventory record runs without error and its ANSWER equals the
\* record's gt_ans.
C4_EmbeddedInventoryReproduces ==
    script = InventoryScript =>
        \A j \in 1..Len(dataset) :
            LET r == InventoryEmbeddedRun(dataset[j].task)
            IN  /\ r.status = "ok"
                /\ r.ANSWER = dataset[j].gt_ans

\* C5: executing the program embedded in the task text of every Ducci record
\* runs without error and its ANSWER equals the record's gt_ans.
C5_EmbeddedDucciReproduces ==
    script = DucciScript =>
        \A j \in 1..Len(dataset) :
            LET r == DucciEmbeddedRun(dataset[j].task)
            IN  /\ r.status = "ok"
                /\ r.ANSWER = dataset[j].gt_ans

\* what the claim describes for step 1: the four offset counters of the seed
\* (mod 5) followed by the count of '4'
InventoryFirstCounters ==
    Str((Count(InventorySeed, "0") + 1) % 5) \o Str((Count(InventorySeed, "1") + 2) % 5)
        \o Str((Count(InventorySeed, "2") + 1) % 5) \o Str((Count(InventorySeed, "3") + 1) % 5)
        \o Str(Count(InventorySeed, "4"))

\* C6: step 1 of the digit-inventory generator turns the seed into an
\* 8-character string made of the four offset counters mod 5 and the count of
\* '4', and the state has length 8 after the first and every later update.
C6_InventoryStateLength8 ==
    (script = InventoryScript /\ i >= 1) =>
        /\ Len(state) = 8
        /\ i = 1 => state = InventoryFirstCounters

\* int(ch) for a digit character
DigitVal(ch) == (CHOOSE k \in 1..10 : DigitChars[k] = ch) - 1

\* int(s) for a non-empty digit string
RECURSIVE ParseInt(_)
ParseInt(s) ==
    IF Len(s) = 1 THEN DigitVal(s[1])
    ELSE 10 * ParseInt(SubSeq(s, 1, Len(s) - 1)) + DigitVal(s[Len(s)])

MazeNoTrim == MaxStep + 2

\* <<st_1, st_2, ...>>: the maze rule applied 1..n times to the start state,
\* one application after the other, keeping the whole string S in buf
RECURSIVE MazeFullOrbitTo(_)
MazeFullOrbitTo(n) ==
    IF n = 0 THEN <<>>
    ELSE LET prev == MazeFullOrbitTo(n - 1)
         IN  Append(prev, update_maze(IF n = 1 THEN MazeStart ELSE prev[n - 1],
                                      MazeH, MazeW, MazeNoTrim))

MazeFullOrbit == MazeFullOrbitTo(MaxStep)

\* position and grid of a maze state
MazePlace(st) == <<st.r, st.c, st.grid>>

\* C8: simulate_last_k(n, k), restarted from a fresh grid for every n with a
\* rolling buffer of k letters, returns the last min(k, n+1) letters of the
\* full string S built by n successive applications of the maze rule; the
\* position and grid it reaches after n moves are one update_maze step applied
\* to the position and grid it reaches after n-1 moves.
C8_MazeLastKOfFullString ==
    script = MazeScript =>
        /\ \A n \in 1..Len(dataset) :
              /\ Len(MazeFullOrbit[n].buf) = n + 1
              /\ dataset[n].gt_ans = LastK(MazeFullOrbit[n].buf, Min(MazeK, n + 1))
        /\ i >= 1 =>
              MazePlace(MazeLoop(MazeStart, i, MazeK))
                = MazePlace(update_maze(MazeLoop(MazeStart, i - 1, MazeK), MazeH, MazeW, MazeK))

\* C8 witness: record 4 is "blqb", the first answer after the buffer has rolled
C8_Witness ==
    /\ script = MazeScript
    /\ Len(dataset) >= 5
    /\ dataset[2].gt_ans = <<"a", "b", "l">>
    /\ dataset[4].gt_ans = <<"b", "l", "q", "b">>

\* <<st_1, st_2, ...>>: picker_step applied 1..n times to the start state, one
\* application after the other, never stopping
RECURSIVE PickerOrbitTo(_)
PickerOrbitTo(n) ==
    IF n = 0 THEN <<>>
    ELSE LET prev == PickerOrbitTo(n - 1)
         IN  Append(prev, picker_step(TEXT, IF n = 1 THEN PickerStart(TEXT, PickerI0)
                                            ELSE prev[n - 1], JUMP_MAP))

PickerOrbit == PickerOrbitTo(MaxStep)

\* the cursor before step n (1-based step count)
PickerCursorBefore(n) == IF n = 1 THEN PickerStart(TEXT, PickerI0).i ELSE PickerOrbit[n - 1].i

\* the jump taken at step n: 0 on a letter
PickerJumpAt(n) ==
    LET c == TEXT[PickerCursorBefore(n) + 1]
    IN  IF IsAlpha(c) THEN 0 ELSE JUMP_MAP[c]

\* <<sum of the jumps of steps 1..m>> for m = 1..n
RECURSIVE PickerJumpSumsTo(_)
PickerJumpSumsTo(n) ==
    IF n = 0 THEN <<>>
    ELSE LET prev == PickerJumpSumsTo(n - 1)
         IN  Append(prev, (IF n = 1 THEN 0 ELSE prev[n - 1]) + PickerJumpAt(n))

PickerJumpSums == PickerJumpSumsTo(MaxStep)

\* the step counts (within the bound) at which the buffer holds k letters
PickerFull == {n \in 1..MaxStep : Len(PickerOrbit[n].B) >= PickerK}

\* <<st_1, st_2, ...>>: the (i, B, score) run_picker's loop holds after n
\* iterations, or at the iteration that returned the word if that came first
RECURSIVE PickerLoopStatesTo(_)
PickerLoopStatesTo(n) ==
    IF n = 0 THEN <<>>
    ELSE LET prev   == PickerLoopStatesTo(n - 1)
             before == IF n = 1 THEN PickerStart(TEXT, PickerI0) ELSE prev[n - 1]
         IN  Append(prev, IF Len(before.B) >= PickerK THEN before
                          ELSE picker_step(TEXT, before, JUMP_MAP))

PickerLoopStates == PickerLoopStatesTo(MaxStep)

\* the state run_picker's loop holds after n iterations, n = 0 being the start
PickerLoopState(n) == IF n = 0 THEN PickerStart(TEXT, PickerI0) ELSE PickerLoopStates[n]

\* C9: with N* the least step count at which the buffer reaches k letters,
\* gt_ans of every record N >= N* is the same k-letter word as for N*, gt_ans
\* of every record N < N* is the integer (sum of the jumps of the first N
\* steps) mod mod_num, and the state after N < N* steps is one picker step
\* applied to the state after N-1 steps.
C9_PickerStopsAtFirstFullBuffer ==
    script = PickerScript =>
        /\ \A n \in 1..Len(dataset) :
              IF n \in PickerFull
              THEN LET nstar == CHOOSE m \in PickerFull : \A m2 \in PickerFull : m <= m2
                   IN  /\ dataset[n].gt_ans.kind = "str"
                       /\ Len(dataset[n].gt_ans.word) = PickerK
                       /\ dataset[n].gt_ans.word = dataset[nstar].gt_ans.word
              ELSE /\ dataset[n].gt_ans.kind = "int"
                   /\ dataset[n].gt_ans.int = PickerJumpSums[n] % PickerModNum
        /\ (i >= 1 /\ i \notin PickerFull) =>
              /\ PickerLoopState(i) = picker_step(TEXT, PickerLoopState(i - 1), JUMP_MAP)
              /\ dataset[i].gt_ans.int = PickerLoopState(i).score % PickerModNum

\* C9 witness: record 41 is still the score 165 and records 42 and 43 are the word
C9_Witness ==
    /\ script = PickerScript
    /\ Len(dataset) >= 43
    /\ dataset[41].gt_ans.kind = "int"
    /\ dataset[41].gt_ans.int = 165
    /\ dataset[42].gt_ans.kind = "str"
    /\ dataset[43].gt_ans.word = dataset[42].gt_ans.word

\* the bit of a cell
Bit(ch) == IF ch = "1" THEN 1 ELSE 0

\* C10: update_rule90 applied to a binary string b of length L >= 1 returns a
\* string of the same length over {'0','1'} whose bit i is
\* b[(i-1) mod L] XOR b[(i+1) mod L]; so every state generated from the
\* 13-cell seed has length 13 and only '0' and '1'.
C10_Rule90NeighbourXor ==
    fnOut.called =>
        LET b   == fnArg
            L   == Len(b)
            out == fnOut.value
        IN  /\ L >= 1
            /\ Len(out) = L
            /\ \A p \in 0..(L - 1) :
                  /\ out[p + 1] \in {"0", "1"}
                  /\ Bit(out[p + 1]) = (Bit(b[((p - 1) % L) + 1]) + Bit(b[((p + 1) % L) + 1])) % 2

\* C10 witness: the rule has been applied to the seed, giving "0000010100110"
C10_Witness ==
    /\ fnArg = Rule90Seed
    /\ fnOut.called
    /\ fnOut.value = <<"0", "0", "0", "0", "0", "1", "0", "1", "0", "0", "1", "1", "0">>

\* the index-remapped difference of a vector x, entry j (0-based)
DucciRemapped(x, j) ==
    LET K == Len(x)
        a == IF j <= 2 THEN j ELSE (2 * j) % K
        b == (IF j <= 5 THEN j + 1 ELSE j - 2) % K
    IN  Abs(x[a + 1] - x[b + 1]) % 1000

C12_AffineStepAndRanges ==
    (script = AffineScript /\ i >= 1) =>
        /\ \A c \in 1..3 : state[c] \in 0..199
        /\ state[3] = i % 200
        /\ dataset[1].gt_ans = <<"9", ",", "1", "2", ",", "1">>
        /\ i = 1 => state = <<9, 12, 1>>
        /\ dataset[i].gt_ans = AffineGtStr(state)

\* C12 witness: t has wrapped, 201 steps leave t = 1
C12_Witness ==
    /\ script = AffineScript
    /\ i = 201
    /\ state[3] = 1
    /\ dataset[1].gt_ans = <<"9", ",", "1", "2", ",", "1">>

\* the words of D as a set
ShiritoriWords == Range(ShiritoriD)

\* C13: D has exactly one word per starting letter a..z, so for every word w
\* of D the candidate list Next(w) has exactly one element and the next word
\* is that element whatever the checksum; step 1 from 'alas' yields 'suq'.
C13_ShiritoriSingleCandidate ==
    script = ShiritoriScript =>
        /\ Len(ShiritoriD) = 26
        /\ \A c \in Range(LowerAlphabet) :
              Cardinality({k \in 1..Len(ShiritoriD) : ShiritoriD[k][1] = c}) = 1
        /\ state \in ShiritoriWords
        /\ Len(shiritori_candidates(state, ShiritoriD)) = 1
        /\ \A s \in 0..3 :
              shiritori_candidates(state, ShiritoriD)[(s % Len(shiritori_candidates(state, ShiritoriD))) + 1]
                = shiritori_step(state, ShiritoriD)
        /\ i >= 1 => dataset[1].gt_ans = <<"s", "u", "q">>
        /\ \A n \in 1..Len(dataset) :
              dataset[n].gt_ans = shiritori_candidates(IF n = 1 THEN ShiritoriW0
                                                       ELSE dataset[n - 1].gt_ans, ShiritoriD)[1]

\* C13 witness: the walk has gone once round all 26 words and is back at 'alas'
C13_Witness ==
    /\ script = ShiritoriScript
    /\ i = 26
    /\ dataset[1].gt_ans = <<"s", "u", "q">>
    /\ {dataset[n].gt_ans : n \in 1..26} = ShiritoriWords
    /\ state = ShiritoriW0

C15_SeedNeverMutated ==
    /\ script = TransposonScript =>
          /\ state.heap[state.d0] = TransposonD0
          /\ \A n \in 1..Len(dataset) : dataset[n].task.d0 = TransposonD0
    /\ script = ArraySwapScript =>
          /\ state.heap[state.init_A] = ArraySwapInitA
          /\ \A n \in 1..Len(dataset) : dataset[n].task.init_A = ArraySwapInitA
    /\ script = GraphScript =>
          /\ state.heap[state.init_W] = GraphInitW
          /\ \A n \in 1..Len(dataset) : dataset[n].task.init_W = GraphInitW

\* C15 witness: the working genome has changed, the seed genome has not
C15_Witness ==
    /\ script = TransposonScript
    /\ i >= 2
    /\ state.heap[state.d] # TransposonD0
    /\ state.heap[state.d0] = TransposonD0
    /\ dataset[i].task.d0 = dataset[1].task.d0

\* C16: in the lexical antonym/synonym chain, from 'true' and from any word of
\* the tables, every word reached whose first letter is in ODD_LETTERS is a key
\* of PAIRS_MAP and every other word reached is a key of SYN_MAP, so no step
\* raises KeyError or ValueError and the run never ends in an exception.
C16_LexicalChainTotal ==
    script = LexicalScript =>
        /\ pc # "crashed"
        /\ state.current_word # <<>>
        /\ IF Lower(state.current_word[1]) \in ODD_LETTERS
           THEN state.current_word \in DOMAIN PAIRS_MAP
           ELSE state.current_word \in DOMAIN SYN_MAP
        /\ update_word(state.current_word).exc = "none"

\* C16 witness: a run started at 'biased' has walked the whole 40-cycle
C16_Witness ==
    /\ script = LexicalScript
    /\ state.init_word = <<"b", "i", "a", "s", "e", "d">>
    /\ i = 40
    /\ dataset[1].gt_ans = <<"b", "r", "i", "g", "h", "t">>
    /\ state.current_word = state.init_word
    /\ pc = "loop"

\* every cell of the current grid is 0 or 1 and the cursor is in range
TorusInRange ==
    script = TorusScript =>
        LET grid == state.heap[state.grid]
        IN  /\ Len(grid) = TorusL
            /\ \A rr \in 1..TorusL :
                  /\ Len(grid[rr]) = TorusL
                  /\ \A cc \in 1..TorusL : grid[rr][cc] \in {0, 1}
            /\ state.r \in 0..(TorusL - 1)
            /\ state.c \in 0..(TorusL - 1)
            /\ state.d \in {0, 1, 2, 3}

\* a step of the ant: the grid it returns differs from the grid it was given
\* in the cell the ant stood on, which is flipped, and in no other cell; the
\* list it was given holds afterwards what it held before
TorusStepFlipsAntCell ==
    (script = TorusScript /\ i' = i + 1) =>
        LET old == state.heap[state.grid]
            new == state'.heap[state'.grid]
        IN  /\ \A rr \in 1..TorusL : \A cc \in 1..TorusL :
                  new[rr][cc] = IF rr = state.r + 1 /\ cc = state.c + 1
                                THEN 1 - old[rr][cc]
                                ELSE old[rr][cc]
            /\ state'.heap[state.grid] = old
            /\ state'.heap[SeedObj] = TorusInitGrid

\* C17: in the torus-ant generator, at every step every grid cell is 0 or 1,
\* 0 <= r < H, 0 <= c < W and d is in {0,1,2,3}; one step flips exactly the
\* cell the ant stands on and no other, and update_torus_ant does not modify
\* the grid object passed to it.
C17_TorusAntRangesAndFlip == []TorusInRange /\ [][TorusStepFlipsAntCell]_vars

\* C17 witness: after 5 steps the ant has flipped a cell back to 0 (3 ones
\* are left of 4) and has wrapped to column 4; the seed grid is still all 0
C17_Witness ==
    /\ script = TorusScript
    /\ i = 5
    /\ dataset[5].gt_ans = <<"0", ",", "4", ",", "3", ",", "3">>
    /\ state.heap[SeedObj] = TorusInitGrid
    /\ dataset[5].task.grid = TorusInitGrid

\* C18: a run replaces the whole content of a file that already exists at
\* out_path: after the run the file holds exactly the records of this run,
\* idx 1..num_step, and nothing written before; so when a second run is about
\* to open the file the first run left, the file already holds what the second
\* run will write, and two runs in a row leave the same file as one.
C18_RunOverwritesFile ==
    /\ pc = "done" =>
          /\ file.exists
          /\ Len(file.content) = num_step
          /\ \A n \in 1..num_step : file.content[n].idx = n
          /\ script \notin StreamingScripts => file.content = dataset
    /\ (run >= 2 /\ pc = "open" /\ script \notin StreamingScripts) =>
          /\ Len(file.content) = Len(dataset)
          /\ file.content = dataset

\* C18 witness: the second affine2d run has overwritten the file of the first
C18_Witness ==
    /\ script = AffineScript
    /\ run = 2
    /\ pc = "done"
    /\ num_step >= 3
    /\ Len(file.content) = num_step
    /\ file.content[1].gt_ans = <<"9", ",", "1", "2", ",", "1">>

\* every update step has finished when the loop goes on: after a step of the
\* momentum buckets the debt-settlement loop has exited (the debt is below the
\* threshold, or nothing is left to move), and after a step of the transposon
\* rule the head is inside the genome
UpdateStepsFinish ==
    /\ script = MomentumScript =>
          \/ state.c < state.args.debt_threshold
          \/ (state.p1 = 0 /\ state.p2 = 0)
    /\ script = TransposonScript =>
          state.i \in 0..(Len(state.heap[state.d]) - 1)

\* C19: for every num_step (a positive number) every generator run ends in
\* the "file written" state: no run ends on an exception, a run that has
\* ended has written its num_step records to the file, and every update step
\* finishes (the debt-settlement loop of step_once_hard exits, the rightward
\* search of the transposon rule stops at the end of the genome).
C19_EveryRunEndsFileWritten ==
    num_step >= 1 =>
        /\ pc # "crashed"
        /\ pc = "done" =>
              /\ file.exists
              /\ Len(file.content) = num_step
        /\ UpdateStepsFinish

\* the TASK_TYPE of each script
TaskTypeOf(sc) ==
    CASE sc = Rule90Script     -> Rule90Type
      [] sc = CaesarScript     -> CaesarType
      [] sc = InventoryScript  -> InventoryType
      [] sc = DucciScript      -> DucciType
      [] sc = MatrixScript     -> MatrixType
      [] sc = MemoryWalkScript -> MemoryWalkType
      [] sc = MazeScript       -> MazeType
      [] sc = PickerScript     -> PickerType
      [] sc = AffineScript     -> AffineType
      [] sc = ShiritoriScript  -> ShiritoriType
      [] sc = LipogramScript   -> LipogramType
      [] sc = TransposonScript -> TransposonType
      [] sc = ArraySwapScript  -> ArraySwapType
      [] sc = GraphScript      -> GraphType
      [] sc = LexicalScript    -> LexicalType
      [] sc = TorusScript      -> TorusType
      [] sc = MomentumScript   -> MomentumType
      [] sc = ComplexScript    -> ComplexType
      [] sc = FsmScript        -> FsmType
      [] sc = CaScript         -> CaType
      [] sc = RotflipScript    -> RotflipType
      [] sc = TriRegScript     -> TriRegType
      [] sc = PointerScript    -> PointerType
      [] sc = TitrationScript  -> TitrationType
      [] sc = CofactorScript   -> CofactorType
      [] sc = BeltScript       -> BeltType

\* every record carries the TASK_TYPE of the script that made it
RecordsCarryOwnType ==
    \A n \in 1..Len(dataset) : dataset[n].type = TaskTypeOf(script)

\* C20: the type tag written in a record identifies its puzzle family: the
\* tag of a record is the tag of the script that wrote it and of no other
\* generator script.
C20_TypeTagIdentifiesScript ==
    \A n \in 1..Len(dataset) :
        \A sc \in Scripts :
            TaskTypeOf(sc) = dataset[n].type => sc = script

\* P = p0 + p1 + p2
MomentumP(st) == st.p0 + st.p1 + st.p2

\* the branch the rule takes from st, read off its conditions
MomentumBranchOf(st) ==
    IF st.p0 >= (IF st.f = 0 THEN st.args.tau_high ELSE st.args.tau_low) THEN "A"
    ELSE IF st.p1 > 0 THEN "B"
    ELSE "C"

\* one step of the loop changes P by +1 on branch C and by -1 when the
\* recycle triggers, and by nothing else
MomentumStepKeepsP ==
    (script = MomentumScript /\ i' = i + 1) =>
        /\ state'.label.branch = MomentumBranchOf(state)
        /\ MomentumP(state') = MomentumP(state)
              + (IF MomentumBranchOf(state) = "C" THEN 1 ELSE 0)
              - (IF state'.label.recycled THEN 1 ELSE 0)
        /\ state'.label.recycled => (i + 1) % state.args.recycle_period = 0

MomentumInRange ==
    script = MomentumScript =>
        /\ state.p0 >= 0
        /\ state.p1 >= 0
        /\ state.p2 >= 0
        /\ state.c >= 0
        /\ state.f \in {0, 1}
        /\ state.g \in {0, 1}

\* C21: in step_once_hard branch A, branch B and every debt-settlement move
\* leave P = p0 + p1 + p2 unchanged, branch C adds exactly 1 to P and a recycle
\* that triggers takes exactly 1 from P; at every step p0, p1, p2 and c are
\* non-negative and f and g are in {0,1}.
C21_MomentumConservation == []MomentumInRange /\ [][MomentumStepKeepsP]_vars

\* C21 witness: a step on branch C that settled a debt and recycled, P unchanged
\* in all (+1 and -1)
C21_Witness ==
    /\ script = MomentumScript
    /\ i >= 1
    /\ state.label.branch = "C"
    /\ state.label.settled >= 1
    /\ state.label.recycled

\* the debt settlement as the task text prints it: "repeat while c >= K:
\* c <- c - K; if p2>0 then (p2 <- p2 - 1; p0 <- p0 + 1) else if p1>0 then
\* (p1 <- p1 - 1; p0 <- p0 + 1) else (no-op)"
RECURSIVE MomentumTextSettle(_, _)
MomentumTextSettle(s, K) ==
    IF s.c >= K
    THEN LET s1 == [s EXCEPT !.c = @ - K]
         IN  IF s1.p2 > 0
             THEN MomentumTextSettle([s1 EXCEPT !.p2 = @ - 1, !.p0 = @ + 1], K)
             ELSE IF s1.p1 > 0
             THEN MomentumTextSettle([s1 EXCEPT !.p1 = @ - 1, !.p0 = @ + 1], K)
             ELSE MomentumTextSettle(s1, K)
    ELSE s

\* one step "Per-step update" of the task text on (p0, p1, p2, f, g, c)
MomentumTextStep(s, args, t) ==
    LET tau_eff == IF s.f = 0 THEN args.tau_high ELSE args.tau_low
        primary ==
            IF s.p0 >= tau_eff
            THEN [s EXCEPT !.p0 = @ - 1, !.p1 = @ + 1, !.f = 1 - @,
                           !.g = IF (s.p1 + 1) % 2 = 1 THEN 1 - @ ELSE @]
            ELSE IF s.p1 > 0
            THEN [s EXCEPT !.p1 = @ - 1, !.p2 = @ + 1,
                           !.g = IF (s.p2 + 1) % 2 = 0 THEN 1 - @ ELSE @]
            ELSE [s EXCEPT !.p1 = @ + 1, !.c = @ + 1]
        settled == MomentumTextSettle(primary, args.debt_threshold)
    IN  IF t % args.recycle_period = 0 /\ settled.p2 >= 2
        THEN [settled EXCEPT !.p2 = @ - 2, !.p0 = @ + 1, !.f = 1 - @]
        ELSE settled

\* the state a reader of the text has after n steps from the printed start
RECURSIVE MomentumTextStateAfter(_, _)
MomentumTextStateAfter(n, args) ==
    IF n = 0 THEN args.start
    ELSE LET prev == MomentumTextStateAfter(n - 1, args)
         IN  IF prev.c >= 0 THEN MomentumTextStep(prev, args, n) ELSE prev

\* C22: for every start state the argument checks accept and every debt
\* threshold K >= 1 the debt settlement of step_once_hard yields the p0, p1,
\* p2 and c of the rule printed in the task text, so that every gt_ans is the
\* value a reader of the text computes.
C22_SettlementMatchesText ==
    script = MomentumScript =>
        /\ LET text == MomentumTextStateAfter(i, state.args)
           IN  /\ state.p0 = text.p0
               /\ state.p1 = text.p1
               /\ state.p2 = text.p2
               /\ state.c = text.c
        /\ \A n \in 1..Len(dataset) :
              dataset[n].gt_ans =
                  MomentumGt(MomentumTextStateAfter(n, state.args), state.args)

\* the state names of the task text, E0..E4
FsmNames == <<"E0", "E1", "E2", "E3", "E4">>

FsmIndexOf(name) == CHOOSE k \in 0..(Len(FsmNames) - 1) : FsmNames[k + 1] = name

\* the cell of the printed table in the row of state `name`, column of input v
FsmTableCell(table, name, v) ==
    LET row == CHOOSE r \in 1..Len(table) : table[r][1] = name
    IN  table[row][v + 2]

\* the hit count of the text of `task`: steps t..n from state `name` with cnt hits
RECURSIVE FsmTextRun(_, _, _, _)
FsmTextRun(task, name, cnt, t) ==
    IF t > task.n THEN cnt
    ELSE LET u_t == task.u[(t % task.L) + 1]
             nxt == FsmTableCell(task.T_table_md, name, u_t)
         IN  IF nxt = FsmNames[task.Etar + 1]
             THEN FsmTextRun(task, nxt, cnt + 1, t + 1)
             ELSE FsmTextRun(task, nxt, cnt, t + 1)

Rule30Bit(l, c, r) == (l + (IF c + r >= 1 THEN 1 ELSE 0)) % 2

RotflipBoards == [1..3 -> [1..3 -> {0, 1}]]

\* the board of the task text after "rotate clockwise": the cell at (r, c)
\* moves to (c, 2 - r), indices 0..2
RotflipTextRotated(G) ==
    CHOOSE F \in RotflipBoards :
        \A r \in 0..2 : \A c \in 0..2 : F[c + 1][(2 - r) + 1] = G[r + 1][c + 1]

\* a cell of the text's board F, 0 when (r, c) is out of bounds
RotflipTextCell(F, r, c) ==
    IF r \in 0..2 /\ c \in 0..2 THEN F[r + 1][c + 1] ELSE 0

\* G_t is obtained from G_(t-1) as the task text states
RotflipTextStepHolds(G, Gt) ==
    LET rotated == RotflipTextRotated(G)
        centre  == 1 - rotated[2][2]
        F       == [rotated EXCEPT ![2][2] = centre]
    IN  /\ Gt[2][2] = centre
        /\ \A r \in 0..2 : \A c \in 0..2 :
              (r # 1 \/ c # 1) =>
                  Gt[r + 1][c + 1] =
                      (RotflipTextCell(F, r - 1, c) + RotflipTextCell(F, r + 1, c)
                       + RotflipTextCell(F, r, c - 1) + RotflipTextCell(F, r, c + 1)) % 2

\* one step of the loop: the new board follows the text, and the new record's
\* answer is the previous answer plus s_t = G_t[2][0] + G_t[1][1] + G_t[0][2],
\* modulo 1000
RotflipStepFollowsText ==
    (script = RotflipScript /\ i' = i + 1) =>
        /\ RotflipTextStepHolds(state.board, state'.board)
        /\ Len(dataset') = i'
        /\ dataset'[i'].gt_ans =
              ((IF i = 0 THEN 0 ELSE dataset[i].gt_ans)
               + state'.board[3][1] + state'.board[2][2] + state'.board[1][3]) % 1000

RotflipCellsAreBits ==
    script = RotflipScript =>
        /\ state.board \in RotflipBoards
        /\ i = 0 => state.board = RotflipInitBoard

C26_TriRegistersBelowP ==
    (script = TriRegScript /\ i >= 1) =>
        /\ Len(state) = 3
        /\ \A k \in 1..3 : state[k] \in 0..(TriRegP - 1)
        /\ dataset[i].gt_ans = (state[1] + state[2] + state[3]) % TriRegModNum

\* C26 witness: step 93 has the registers and the phase t mod 3 of step 84, so
\* every later state is one of steps 84..92; register c stood at 30 at step 17
C26_Witness ==
    /\ script = TriRegScript
    /\ i = 93
    /\ state = <<26, 30, 24>>
    /\ dataset[84].gt_ans = dataset[93].gt_ans
    /\ dataset[17].gt_ans = 48

\* every pair (i, m-1-i) of the word mirror-matches
AllPairsMatch(word) == ~first_unmatched_pair(word, MirrorMap).found

\* the two cursors of a started machine point at the two members of one pair
CursorsAligned ==
    fnOut.called => fnOut.value.L + fnOut.value.R = Len(fnOut.value.w) - 1

\* a pass made on a word whose pairs all mirror-match leaves the word as it was
MatchedWordStays ==
    (fnOut.called /\ fnOut'.called /\ AllPairsMatch(fnOut.value.w))
        => fnOut'.value.w = fnOut.value.w

\* a word whose pairs all mirror-match is a fixed point of the step at every
\* cursor pair (L, m-1-L)
MatchedWordFixedAtAllCursors ==
    (fnOut.called /\ AllPairsMatch(fnOut.value.w))
        => \A l \in 0..(Len(fnOut.value.w) - 1) :
              pointer_step([w |-> fnOut.value.w, L |-> l,
                            R |-> Len(fnOut.value.w) - 1 - l], MirrorMap).w
                  = fnOut.value.w

\* C27: in the mirror pointer-fixer machine, once every pair (i, m-1-i) of the
\* word mirror-matches, every further step leaves the word unchanged, at every
\* cursor position the machine can be in (the cursors always point at the two
\* members of one pair)
C27_MatchedWordIsFixedPoint ==
    /\ [](CursorsAligned /\ MatchedWordFixedAtAllCursors)
    /\ [][MatchedWordStays]_vars

\* a word the machine repaired, one pass after the sweep that ended the repair
C27_Witness ==
    /\ fnArg = <<"b", "a", "p", "b">>
    /\ fnOut.called
    /\ fnOut.value.w = <<"b", "a", "a", "d">>
    /\ fnOut.value.k = 3
    /\ fnOut.value.L = 1
    /\ fnOut.value.R = 2

\* the cursors of a started machine are in range and not crossed
CursorsInRange ==
    fnOut.called =>
        /\ 0 <= fnOut.value.L
        /\ fnOut.value.L <= fnOut.value.R
        /\ fnOut.value.R <= Len(fnOut.value.w) - 1

\* ceil(m / 2) for the seed word
PointerSweep == (Len(PointerInitWord) + 1) \div 2

\* C28: started on the seed word (length 59), the machine has
\* 0 <= L <= R <= m-1 at the start of every step, and from the end of the
\* first sweep of ceil(m/2) = 30 steps on every pair (i, m-1-i) mirror-matches
C28_SeedSweepRepairsWord ==
    (fnOut.called /\ fnArg = PointerInitWord) =>
        /\ Len(fnOut.value.w) = 59
        /\ PointerSweep = 30
        /\ CursorsInRange
        /\ fnOut.value.k >= PointerSweep => AllPairsMatch(fnOut.value.w)

\* the seed word right after its first sweep: repaired, cursors back at the ends
C28_Witness ==
    /\ fnArg = PointerInitWord
    /\ fnOut.called
    /\ fnOut.value.k = PointerSweep
    /\ fnOut.value.L = 0
    /\ fnOut.value.R = 58
    /\ fnOut.value.w # PointerInitWord
    /\ AllPairsMatch(fnOut.value.w)

\* the genome the transposon run works on
TransposonGenome == state.heap[state.d]

\* C29: in the transposon-hop run started from d0 with the head at i0 = 1, in
\* every state the genome has five 1-bits, the head index is in [0, L) and the
\* head sits on a 1-bit, so every call of update_once takes the hop branch and
\* the rightward search (head on a 0) is never executed
C29_TransposonHeadOnOne ==
    script = TransposonScript =>
        /\ Len(TransposonGenome) = Len(TransposonD0)
        /\ Count(TransposonGenome, 1) = 5
        /\ state.i \in 0..(Len(TransposonGenome) - 1)
        /\ TransposonGenome[state.i + 1] = 1

\* after step 3: the transposon hopped 1 -> 3 -> 2, then the head hopped onto
\* the transposon already at index 4
C29_Witness ==
    /\ script = TransposonScript
    /\ Len(dataset) = 3
    /\ state.i = 4
    /\ TransposonGenome = <<0, 0, 1, 0, 1, 0, 0, 0, 1, 0, 1, 0, 0, 0, 0, 1>>

\* each of the five counts of a ledger is non-negative
LedgerNonNegative(S) ==
    S.nH2A >= 0 /\ S.nHA >= 0 /\ S.nA2 >= 0 /\ S.nOH >= 0 /\ S.nH >= 0

\* C30: in the titration ledger, for every schedule over {A, B} and all
\* non-negative delta_base and delta_acid, the five counts (nH2A, nHA, nA2,
\* nOH, nH) are non-negative in every ledger the run reaches and after the
\* reagent add and each of the three sub-steps of base_step and of acid_step
\* applied to it
C30_TitrationCountsNonNegative ==
    script = TitrationScript =>
        /\ LedgerNonNegative(state.S)
        /\ \A k \in 1..4 :
              /\ LedgerNonNegative(base_substeps(state.S, state.args.delta_base)[k])
              /\ LedgerNonNegative(acid_substeps(state.S, state.args.delta_acid)[k])

\* two base steps of 24 OH- each: H2A and HA- are used up (both minima clamp)
\* and 8 OH- are left over
C30_Witness ==
    /\ script = TitrationScript
    /\ Len(dataset) = 2
    /\ state.args.delta_base = 24
    /\ state.args.schedule = <<"B", "B", "A">>
    /\ state.S = [nH2A |-> 0, nHA |-> 0, nA2 |-> 23, nOH |-> 8, nH |-> 0]

\* nH2A + nHA + nA2 of a ledger
TitrationTotal(S) == S.nH2A + S.nHA + S.nA2

\* C31: in the titration ledger every base_step and acid_step keeps the total
\* nH2A + nHA + nA2 (23 for the fixed initial ledger), and after every
\* completed step strong acid and strong base are not both left over
\* (nH = 0 or nOH = 0)
C31_TitrationTotalAndExcess ==
    script = TitrationScript =>
        /\ TitrationTotal(state.S) = 23
        /\ TitrationTotal(base_step(state.S, state.args.delta_base)) = TitrationTotal(state.S)
        /\ TitrationTotal(acid_step(state.S, state.args.delta_acid)) = TitrationTotal(state.S)
        /\ Len(dataset) >= 1 => (state.S.nH = 0 \/ state.S.nOH = 0)

\* an acid step of 24 H+ leaves 18 H+ over; the base step of 24 OH- that
\* follows neutralises them and spends the other 6 on H2A
C31_Witness ==
    /\ script = TitrationScript
    /\ Len(dataset) = 2
    /\ state.args.delta_base = 24
    /\ state.args.delta_acid = 24
    /\ state.args.schedule = <<"A", "B">>
    /\ state.S = [nH2A |-> 17, nHA |-> 6, nA2 |-> 0, nOH |-> 0, nH |-> 0]

\* A + B is what it was at the start, and once the ticks made exceed A0 * k
\* the substrate is used up and B = A0 + B0
CofactorConserved ==
    script = CofactorScript =>
        /\ state.A + state.B = state.args.A0 + state.args.B0
        /\ i >= state.args.A0 * state.args.k + 1 => state.A = 0
        /\ state.A = 0 => state.B = state.args.A0 + state.args.B0

\* B never decreases, and with A = 0 neither A nor B changes any more
CofactorTickMonotone ==
    script = CofactorScript =>
        /\ state'.B >= state.B
        /\ state.A = 0 => (state'.A = 0 /\ state'.B = state.B)

\* C32: in the enzyme-cofactor queue with period k >= 1 (and non-negative start
\* counts), repeated ticks bring A to 0, after at most A0 * k + 1 of them; from
\* then on B equals A0 + B0 and never changes; at every tick A + B is constant
\* and B never decreases
C32_CofactorSubstrateRunsOut == []CofactorConserved /\ [][CofactorTickMonotone]_vars

\* no cofactor at the start, period 3: the three reactions come at ticks 4, 7
\* and 10, and tick 11 changes nothing
C32_Witness ==
    /\ script = CofactorScript
    /\ state.args = [A0 |-> 3, B0 |-> 1, C0 |-> 0, k |-> 3]
    /\ Len(dataset) = 11
    /\ state.A = 0
    /\ state.B = 4
    /\ dataset[9].gt_ans = 3
    /\ dataset[10].gt_ans = 4

\* the three counts are non-negative
CofactorNonNegative ==
    script = CofactorScript => (state.A >= 0 /\ state.B >= 0 /\ state.C >= 0)

\* a tick changes each count by at most 1
CofactorTickSmall ==
    script = CofactorScript =>
        /\ Abs(state'.A - state.A) <= 1
        /\ Abs(state'.B - state.B) <= 1
        /\ Abs(state'.C - state.C) <= 1

\* C33: in the enzyme-cofactor queue (non-negative start counts, k >= 1), after
\* every tick A, B and C are non-negative integers and each differs from its
\* value after the previous tick by at most 1
C33_CofactorCountsStepByOne == []CofactorNonNegative /\ [][CofactorTickSmall]_vars

\* period 1 with one token: the second tick reacts and regenerates, so C is 1
\* before and after it
C33_Witness ==
    /\ script = CofactorScript
    /\ state.args = [A0 |-> 2, B0 |-> 0, C0 |-> 1, k |-> 1]
    /\ Len(dataset) = 2
    /\ state.A = 0
    /\ state.B = 2
    /\ state.C = 1

\* the station the walk 1->2->3->4->5->3 (tail 1, 2; cycle 3, 4, 5) is at
\* after n jumps
BeltTailTwoCycleThree(n) == IF n <= 1 THEN n + 1 ELSE 3 + ((n - 2) % 3)

\* C34: in the belt functional-graph run the walk from v0 = 1 follows
\* 1->2->3->4->5->3: station 5 jumps back to station 3, a tail of length 2
\* followed by a cycle of length 3
C34_BeltWalkTailTwoCycleThree ==
    script = BeltScript => state.cur = BeltTailTwoCycleThree(Len(dataset))

\* the banned set that is active at step t (1-based)
LipogramActive(t) == LipogramB[((t - 1) % 5) + 1]

\* word W[p] (0-based p) has none of the letters of the set
LipogramAllowed(p, banned) == Range(LipogramW[p + 1]) \cap banned = {}

\* the cursor is an index of W, and every record holds a word free of the
\* letters of its step's banned set, never the "NO VALID WORD" string
LipogramRecordsValid ==
    script = LipogramScript =>
        /\ state \in 0..(Len(LipogramW) - 1)
        /\ \A t \in 1..Len(dataset) :
              /\ dataset[t].gt_ans # NoValidWord
              /\ \E p \in 0..(Len(LipogramW) - 1) : dataset[t].gt_ans = LipogramW[p + 1]
              /\ Range(dataset[t].gt_ans) \cap LipogramActive(t) = {}

\* a step picks the word at the smallest circular offset from the cursor that
\* is free of the active set's letters, and leaves the cursor right after it
LipogramStepPicksFirst ==
    (script = LipogramScript /\ Len(dataset') = Len(dataset) + 1) =>
        LET n      == Len(LipogramW)
            t      == Len(dataset) + 1
            banned == LipogramActive(t)
        IN  \E k \in 0..(n - 1) :
              /\ LipogramAllowed((state + k) % n, banned)
              /\ \A j \in 0..(k - 1) : ~LipogramAllowed((state + j) % n, banned)
              /\ dataset'[t].gt_ans = LipogramW[((state + k) % n) + 1]
              /\ state' = (state + k + 1) % n

\* C35: in the rotating lipogram sieve with the fixed W and B_list and p0 = 0,
\* at every step t >= 1 find_next_word returns a word (never None) that has
\* none of the letters of B_list[(t-1) mod 5] and is the first such word at or
\* after the cursor in circular order; gt_ans is never "NO VALID WORD" and the
\* cursor stays in [0, |W|)
C35_LipogramAlwaysFindsFirstWord ==
    []LipogramRecordsValid /\ [][LipogramStepPicksFirst]_vars

\* step 37 (banned letter e, cursor 43) skips "plume" and "crave" and picks
\* "gnash"; step 70 picks the last word and brings the cursor back to 0 with
\* the first banned set due again, so every later step repeats one of steps
\* 1..70
C35_Witness ==
    /\ script = LipogramScript
    /\ Len(dataset) = 70
    /\ state = 0
    /\ dataset[37].gt_ans = <<"g", "n", "a", "s", "h">>
    /\ dataset[70].gt_ans = <<"d", "o", "w", "e", "l">>

====
